---- MODULE Spec2Model ----
(***************************************************************************)
(* A model of READMEUpdater (src/readme_updater.py): the markdown document *)
(* engine that parses a text into header-delimited sections, merges a      *)
(* ChangeSet into it (update_from_analysis) and merges versioned changelog *)
(* blocks (update_changelog).                                              *)
(*                                                                         *)
(* A text is a sequence of one-character strings, so that every substring  *)
(* test, split, strip, replace and regular-expression search of the source *)
(* is computed on characters, as Python computes it.                       *)
(***************************************************************************)
EXTENDS Integers, Sequences, FiniteSets, TLC

(***************************************************************************)
(* Characters and Python's str primitives                                  *)
(***************************************************************************)
NL == "\n"
SP == " "
HASH == "#"

\* str.isspace() on the characters the model's texts are made of
IsSpace(c) == c \in {" ", "\n", "\t", "\r"}

UpperChars == <<"A","B","C","D","E","F","G","H","I","J","K","L","M",
                "N","O","P","Q","R","S","T","U","V","W","X","Y","Z">>
LowerChars == <<"a","b","c","d","e","f","g","h","i","j","k","l","m",
                "n","o","p","q","r","s","t","u","v","w","x","y","z">>
LowerTable == [c \in {UpperChars[i] : i \in 1..Len(UpperChars)} |->
                 LowerChars[CHOOSE i \in 1..Len(UpperChars) : UpperChars[i] = c]]

\* str.lower()
Lower(s) == [i \in 1..Len(s) |-> IF s[i] \in DOMAIN LowerTable THEN LowerTable[s[i]] ELSE s[i]]

MinOf(S) == CHOOSE x \in S : \A y \in S : x <= y
MaxOf(S) == CHOOSE x \in S : \A y \in S : x >= y

\* whether p occurs in s at index i
StartsAt(s, p, i) == /\ i >= 1
                     /\ i + Len(p) - 1 <= Len(s)
                     /\ SubSeq(s, i, i + Len(p) - 1) = p

\* str.find(p, from) with 1-based indices; 0 when p does not occur
Find(s, p, from) ==
  LET hits == {i \in from..(Len(s) - Len(p) + 1) : SubSeq(s, i, i + Len(p) - 1) = p}
  IN  IF hits = {} THEN 0 ELSE MinOf(hits)

\* p in s
Contains(s, p) == Find(s, p, 1) # 0

\* s.count(p): non-overlapping occurrences, left to right (p non-empty)
RECURSIVE CountFrom(_, _, _)
CountFrom(s, p, from) ==
  LET i == Find(s, p, from)
  IN  IF i = 0 THEN 0 ELSE 1 + CountFrom(s, p, i + Len(p))
Count(s, p) == CountFrom(s, p, 1)

\* s.replace(old, new): every non-overlapping occurrence, left to right (old non-empty)
RECURSIVE ReplaceFrom(_, _, _, _)
ReplaceFrom(s, old, new, from) ==
  LET i == Find(s, old, from)
  IN  IF i = 0 THEN SubSeq(s, from, Len(s))
      ELSE SubSeq(s, from, i - 1) \o new \o ReplaceFrom(s, old, new, i + Len(old))
Replace(s, old, new) == ReplaceFrom(s, old, new, 1)

\* s.rstrip(), s.strip()
RStrip(s) ==
  LET keep == {i \in 1..Len(s) : ~IsSpace(s[i])}
  IN  IF keep = {} THEN <<>> ELSE SubSeq(s, 1, MaxOf(keep))
Strip(s) ==
  LET keep == {i \in 1..Len(s) : ~IsSpace(s[i])}
  IN  IF keep = {} THEN <<>> ELSE SubSeq(s, MinOf(keep), MaxOf(keep))

\* s.endswith(p)
EndsWith(s, p) == Len(s) >= Len(p) /\ SubSeq(s, Len(s) - Len(p) + 1, Len(s)) = p

\* s.split('\n'): the pieces between newlines, always at least one piece
RECURSIVE SplitFrom(_, _)
SplitFrom(s, from) ==
  LET i == Find(s, <<NL>>, from)
  IN  IF i = 0 THEN <<SubSeq(s, from, Len(s))>>
      ELSE <<SubSeq(s, from, i - 1)>> \o SplitFrom(s, i + 1)
Split(s) == SplitFrom(s, 1)

\* s.splitlines(keepends=True): each line with its newline, no empty last piece
RECURSIVE SplitLinesFrom(_, _)
SplitLinesFrom(s, from) ==
  IF from > Len(s) THEN <<>>
  ELSE LET i == Find(s, <<NL>>, from)
       IN  IF i = 0 THEN <<SubSeq(s, from, Len(s))>>
           ELSE <<SubSeq(s, from, i)>> \o SplitLinesFrom(s, i + 1)
SplitLinesKeepEnds(s) == SplitLinesFrom(s, 1)

\* sep.join(parts)
RECURSIVE Join(_, _)
Join(parts, sep) ==
  IF parts = <<>> THEN <<>>
  ELSE IF Len(parts) = 1 THEN parts[1]
  ELSE parts[1] \o sep \o Join(Tail(parts), sep)

\* "".join(parts)
Concat(parts) == Join(parts, <<>>)

\* list.insert(i, x) with a 0-based index i <= len(list)
ListInsert(list, i, x) == SubSeq(list, 1, i) \o <<x>> \o SubSeq(list, i + 1, Len(list))

(***************************************************************************)
(* Literal texts of the source                                             *)
(***************************************************************************)
sAdded == <<"A","d","d","e","d">>
sRemoved == <<"R","e","m","o","v","e","d">>
sChanged == <<"C","h","a","n","g","e","d">>
sConfiguration == <<"C","o","n","f","i","g","u","r","a","t","i","o","n">>
sReleaseNotes == <<"R","e","l","e","a","s","e"," ","N","o","t","e","s">>
sFeatures == <<"F","e","a","t","u","r","e","s">>
sH1 == <<"#"," ">>
sH2 == <<"#","#"," ">>
sH3 == <<"#","#","#"," ">>
sBullet == <<"-"," ">>

(***************************************************************************)
(* datetime.date.today().isoformat()                                       *)
(***************************************************************************)
Digits == <<"0","1","2","3","4","5","6","7","8","9">>
Digit(n) == Digits[n + 1]
\* YYYY-MM-DD, zero padded
IsoFormat(d) ==
  << Digit(d.year \div 1000), Digit((d.year \div 100) % 10),
     Digit((d.year \div 10) % 10), Digit(d.year % 10), "-",
     Digit(d.month \div 10), Digit(d.month % 10), "-",
     Digit(d.day \div 10), Digit(d.day % 10) >>

(***************************************************************************)
(* update_changelog                                                        *)
(***************************************************************************)
\* get_bullets(items): "".join(f"- {item}\n" for item in items)
RECURSIVE get_bullets(_)
get_bullets(items) ==
  IF items = <<>> THEN <<>>
  ELSE sBullet \o Head(items) \o <<NL>> \o get_bullets(Tail(items))

\* a changes dict that is filled in another order: Removed ahead of Added
ChangesRemovedFirst(analysis) ==
  (IF analysis.removed_features # <<>>
     THEN << [cat |-> sRemoved, bullets |-> get_bullets(analysis.removed_features)] >> ELSE <<>>)
  \o (IF analysis.new_features # <<>>
     THEN << [cat |-> sAdded, bullets |-> get_bullets(analysis.new_features)] >> ELSE <<>>)
  \o (IF analysis.modified_features # <<>>
     THEN << [cat |-> sChanged, bullets |-> get_bullets(analysis.modified_features)] >> ELSE <<>>)
  \o (IF analysis.configuration_updates # <<>>
     THEN << [cat |-> sConfiguration, bullets |-> get_bullets(analysis.configuration_updates)] >> ELSE <<>>)

\* the changes dict, in insertion order: one (category, bullets) pair per non-empty list
\* (lines 131-135)
Changes(analysis) ==
  (IF analysis.new_features # <<>>
     THEN << [cat |-> sAdded, bullets |-> get_bullets(analysis.new_features)] >> ELSE <<>>)
  \o (IF analysis.removed_features # <<>>
     THEN << [cat |-> sRemoved, bullets |-> get_bullets(analysis.removed_features)] >> ELSE <<>>)
  \o (IF analysis.modified_features # <<>>
     THEN << [cat |-> sChanged, bullets |-> get_bullets(analysis.modified_features)] >> ELSE <<>>)
  \o (IF analysis.configuration_updates # <<>>
     THEN << [cat |-> sConfiguration, bullets |-> get_bullets(analysis.configuration_updates)] >> ELSE <<>>)

\* version_header = f"## {version}"
VersionHeader(version) == sH2 \o version

\* pattern.search(content) for (## version[^\n]*\n)(.*?)(?=\n## |\Z) with DOTALL:
\* the leftmost "## version" that has a newline after it; group 1 runs to that
\* newline, group 2 (lazy) to the first "\n## " at or after its start, else to the end.
\* found = FALSE models None.
VersionMatch(content, version) ==
  LET hdr == VersionHeader(version)
      i   == Find(content, hdr, 1)
      nl  == IF i = 0 THEN 0 ELSE Find(content, <<NL>>, i + Len(hdr))
      nxt == IF nl = 0 THEN 0 ELSE Find(content, <<NL>> \o sH2, nl + 1)
      e   == IF nxt = 0 THEN Len(content) ELSE nxt - 1
  IN  IF i = 0 \/ nl = 0
        THEN [found |-> FALSE, start |-> 0, header_line |-> <<>>, body |-> <<>>, full |-> <<>>]
        ELSE [found |-> TRUE, start |-> i,
              header_line |-> SubSeq(content, i, nl),
              body |-> SubSeq(content, nl + 1, e),
              full |-> SubSeq(content, i, e)]

\* cat_pattern.search(new_body) for (### category\n)(.*?)(?=\n### |\n## |\Z) with DOTALL
CatMatch(new_body, cat_header) ==
  LET i    == Find(new_body, cat_header \o <<NL>>, 1)
      from == i + Len(cat_header) + 1
      a    == Find(new_body, <<NL>> \o sH3, from)
      b    == Find(new_body, <<NL>> \o sH2, from)
      stops == ({a, b} \ {0}) \cup {Len(new_body) + 1}
      e    == MinOf(stops) - 1
  IN  IF i = 0
        THEN [found |-> FALSE, head |-> <<>>, existing_bullets |-> <<>>, full |-> <<>>]
        ELSE [found |-> TRUE,
              head |-> SubSeq(new_body, i, from - 1),
              existing_bullets |-> SubSeq(new_body, from, e),
              full |-> SubSeq(new_body, i, e)]

\* new_unique_bullets: the bullet lines whose stripped text is not a substring
\* of existing_bullets (lines 164-167)
RECURSIVE NewUniqueBullets(_, _)
NewUniqueBullets(lines, existing_bullets) ==
  IF lines = <<>> THEN <<>>
  ELSE (IF ~Contains(existing_bullets, Strip(Head(lines))) THEN Head(lines) ELSE <<>>)
       \o NewUniqueBullets(Tail(lines), existing_bullets)

\* one iteration of the loop over changes.items() (lines 153-175)
MergeCategory(new_body, category, bullets) ==
  LET cat_header == sH3 \o category
  IN  IF Contains(new_body, cat_header)
        THEN LET cat_match == CatMatch(new_body, cat_header)
                 new_unique_bullets ==
                   NewUniqueBullets(SplitLinesKeepEnds(bullets), cat_match.existing_bullets)
                 new_cat_block == cat_match.head \o RStrip(cat_match.existing_bullets)
                                    \o <<NL>> \o new_unique_bullets
             IN  IF cat_match.found /\ new_unique_bullets # <<>>
                   THEN Replace(new_body, cat_match.full, new_cat_block)
                   ELSE new_body
        ELSE RStrip(new_body) \o <<NL, NL>> \o cat_header \o <<NL>> \o bullets

\* the loop over changes.items() in the merge branch
RECURSIVE MergeAll(_, _)
MergeAll(new_body, changes) ==
  IF changes = <<>> THEN new_body
  ELSE MergeAll(MergeCategory(new_body, Head(changes).cat, Head(changes).bullets), Tail(changes))

\* each category's "### {category}\n{bullets}\n" in a new entry (lines 184-185)
RECURSIVE EntryCategories(_)
EntryCategories(changes) ==
  IF changes = <<>> THEN <<>>
  ELSE sH3 \o Head(changes).cat \o <<NL>> \o Head(changes).bullets \o <<NL>>
       \o EntryCategories(Tail(changes))

\* new_entry (lines 183-185)
NewEntry(changes, version, date) ==
  <<NL>> \o VersionHeader(version) \o <<" ", "(">> \o IsoFormat(date) \o <<")", NL, NL>>
  \o EntryCategories(changes)

\* an insert logic that puts the entry after the line that follows the title line
InsertEntryOneLineLate(content, new_entry) ==
  IF Contains(content, sReleaseNotes)
    THEN LET lines == SplitLinesKeepEnds(content)
             hits  == {i \in 1..Len(lines) : Contains(lines[i], sH1 \o sReleaseNotes)}
         IN  IF hits # {}
               THEN Concat(ListInsert(lines, MinOf({MinOf(hits) + 1, Len(lines)}), new_entry))
               ELSE content \o new_entry
    ELSE sH1 \o sReleaseNotes \o <<NL>> \o new_entry \o content

\* an insert logic that, without the words "Release Notes" in the text, puts the
\* entry before the first heading line and makes up a title only when there is none
InsertEntryBeforeHeading(content, new_entry) ==
  IF Contains(content, sReleaseNotes)
    THEN LET lines == SplitLinesKeepEnds(content)
             hits  == {i \in 1..Len(lines) : Contains(lines[i], sH1 \o sReleaseNotes)}
         IN  IF hits # {}
               THEN Concat(ListInsert(lines, MinOf(hits), new_entry))
               ELSE content \o new_entry
    ELSE LET lines == SplitLinesKeepEnds(content)
             heads == {i \in 1..Len(lines) : StartsAt(lines[i], <<HASH>>, 1)}
         IN  IF heads # {}
               THEN Concat(ListInsert(lines, MinOf(heads) - 1, new_entry))
               ELSE sH1 \o sReleaseNotes \o <<NL>> \o new_entry \o content

\* an insert logic that appends the entry whenever the words "Release Notes" are
\* in the text, title line or not
InsertEntryAtEnd(content, new_entry) ==
  IF Contains(content, sReleaseNotes)
    THEN content \o new_entry
    ELSE sH1 \o sReleaseNotes \o <<NL>> \o new_entry \o content

\* the insert logic (lines 188-203)
InsertEntry(content, new_entry) ==
  IF Contains(content, sReleaseNotes)
    THEN LET lines == SplitLinesKeepEnds(content)
             hits  == {i \in 1..Len(lines) : Contains(lines[i], sH1 \o sReleaseNotes)}
         IN  IF hits # {}
               THEN Concat(ListInsert(lines, MinOf(hits), new_entry))
               ELSE content \o new_entry
    ELSE sH1 \o sReleaseNotes \o <<NL>> \o new_entry \o content

\* whether any of the four lists is non-empty (the condition of lines 119-120)
HasChanges(analysis) ==
  \/ analysis.new_features # <<>>
  \/ analysis.removed_features # <<>>
  \/ analysis.modified_features # <<>>
  \/ analysis.configuration_updates # <<>>

\* an update_changelog without the early returns of lines 121 and 138
ChangelogResultNoGuard(content, analysis, version, date) ==
  LET changes == Changes(analysis)
      match   == VersionMatch(content, version)
      new_body == MergeAll(match.body, changes)
  IN  IF match.found
        THEN IF new_body # match.body
               THEN [content |-> Replace(content, match.full, match.header_line \o new_body),
                     ret |-> TRUE]
               ELSE [content |-> content, ret |-> FALSE]
        ELSE [content |-> InsertEntry(content, NewEntry(changes, version, date)),
              ret |-> TRUE]

\* an update_changelog whose merge branch returns True without comparing the bodies
ChangelogResultMergeTrue(content, analysis, version, date) ==
  LET changes == Changes(analysis)
      match   == VersionMatch(content, version)
      new_body == MergeAll(match.body, changes)
  IN  IF ~HasChanges(analysis) THEN [content |-> content, ret |-> FALSE]
      ELSE IF changes = <<>> THEN [content |-> content, ret |-> FALSE]
      ELSE IF match.found
        THEN [content |-> Replace(content, match.full, match.header_line \o new_body),
              ret |-> TRUE]
        ELSE [content |-> InsertEntry(content, NewEntry(changes, version, date)),
              ret |-> TRUE]

\* update_changelog as a function of the text: the new text and the return value
\* (lines 119-207)
ChangelogResult(content, analysis, version, date) ==
  LET changes == Changes(analysis)
      match   == VersionMatch(content, version)
      new_body == MergeAll(match.body, changes)
  IN  IF ~HasChanges(analysis) THEN [content |-> content, ret |-> FALSE]
      ELSE IF changes = <<>> THEN [content |-> content, ret |-> FALSE]
      ELSE IF match.found
        THEN IF new_body # match.body
               THEN [content |-> Replace(content, match.full, match.header_line \o new_body),
                     ret |-> TRUE]
               ELSE [content |-> content, ret |-> FALSE]
        ELSE [content |-> InsertEntry(content, NewEntry(changes, version, date)),
              ret |-> TRUE]

(***************************************************************************)
(* The sections dict.  Python's dict keeps insertion order and assigning   *)
(* to a key that is present keeps the key's place: a sequence of records,  *)
(* one per key.  has = FALSE is the half-built value {'line_start': i} of  *)
(* line 69, which has no 'level', 'content' or 'line_end' key.             *)
(***************************************************************************)
sPreamble == <<"p","r","e","a","m","b","l","e">>

HasKey(sections, key) == \E i \in 1..Len(sections) : sections[i].name = key
KeyIndex(sections, key) == CHOOSE i \in 1..Len(sections) : sections[i].name = key
DictGet(sections, key) == sections[KeyIndex(sections, key)]
\* an assignment that moves a key that is present to the end of the dict
DictSetMoveToEnd(sections, key, value) ==
  Append(SelectSeq(sections, LAMBDA sec : sec.name # key), value)

\* sections[key] = value
DictSet(sections, key, value) ==
  IF HasKey(sections, key)
    THEN [sections EXCEPT ![KeyIndex(sections, key)] = value]
    ELSE Append(sections, value)

\* the number of '#' a line starts with
RECURSIVE LeadingHashes(_)
LeadingHashes(line) ==
  IF line # <<>> /\ Head(line) = HASH THEN 1 + LeadingHashes(Tail(line)) ELSE 0

\* the length of the whitespace run that starts at index i of s
RECURSIVE SpaceRun(_, _)
SpaceRun(s, i) ==
  IF i <= Len(s) /\ IsSpace(s[i]) THEN 1 + SpaceRun(s, i + 1) ELSE 0

\* re.match(r'^(#{1,6})\s+(.+)$', line) on a line that holds no newline: 1 to 6
\* '#', then whitespace, then at least one more character.  When only whitespace
\* follows the marker, \s+ gives its last character back to (.+).
HeaderMatch(line) ==
  LET h == LeadingHashes(line)
      w == SpaceRun(line, h + 1)
  IN  IF h >= 1 /\ h <= 6 /\ w >= 1 /\ Len(line) >= h + 2
        THEN [found |-> TRUE, level |-> h,
              group2 |-> IF h + w < Len(line) THEN SubSeq(line, h + w + 1, Len(line))
                         ELSE SubSeq(line, Len(line), Len(line))]
        ELSE [found |-> FALSE, level |-> 0, group2 |-> <<>>]

\* the completed section value of lines 56-61 and 88-93
SectionValue(name, level, content_lines, line_start, line_end) ==
  [name |-> name, has |-> TRUE, level |-> level, content |-> Join(content_lines, <<NL>>),
   line_start |-> line_start, line_end |-> line_end]

\* one iteration of the loop of _parse_sections (lines 49-84); i is 0-based.
\* current_section = <<>> stands for None and for the empty title: both are falsy.
ParseLine(st, line, i) ==
  LET m == HeaderMatch(line)
      saved == IF st.current_section # <<>>
                 THEN DictSet(st.sections, st.current_section,
                        SectionValue(st.current_section, st.current_level, st.current_content,
                                     DictGet(st.sections, st.current_section).line_start, i - 1))
                 ELSE st.sections
      title == Strip(m.group2)
  IN  IF m.found
        THEN [sections |-> DictSet(saved, title,
                             [name |-> title, has |-> FALSE, level |-> 0, content |-> <<>>,
                              line_start |-> i, line_end |-> 0]),
              current_section |-> title, current_level |-> m.level, current_content |-> <<>>]
        ELSE IF st.current_section # <<>>
          THEN [st EXCEPT !.current_content = Append(@, line)]
          ELSE IF ~HasKey(st.sections, sPreamble)
            THEN [st EXCEPT !.sections = Append(@,
                    [name |-> sPreamble, has |-> TRUE, level |-> 0, content |-> line,
                     line_start |-> 0, line_end |-> i])]
            ELSE [st EXCEPT !.sections[KeyIndex(st.sections, sPreamble)] =
                    [@ EXCEPT !.content = @ \o <<NL>> \o line, !.line_end = i]]

RECURSIVE ParseLoop(_, _, _)
ParseLoop(st, lines, i) ==
  IF i >= Len(lines) THEN st
  ELSE ParseLoop(ParseLine(st, lines[i + 1], i), lines, i + 1)

\* _parse_sections(content)
ParseSections(content) ==
  LET lines == Split(content)
      st == ParseLoop([sections |-> <<>>, current_section |-> <<>>, current_level |-> 0,
                       current_content |-> <<>>], lines, 0)
  IN  IF st.current_section # <<>>
        THEN DictSet(st.sections, st.current_section,
               SectionValue(st.current_section, st.current_level, st.current_content,
                            DictGet(st.sections, st.current_section).line_start, Len(lines) - 1))
        ELSE st.sections

\* '#' * level
RECURSIVE Hashes(_)
Hashes(n) == IF n <= 0 THEN <<>> ELSE <<HASH>> \o Hashes(n - 1)

\* the pieces new_lines collects in _rebuild_content (lines 390-406)
RECURSIVE RebuildLines(_)
RebuildLines(sections) ==
  IF sections = <<>> THEN <<>>
  ELSE LET sec == Head(sections)
       IN  (IF sec.name = sPreamble THEN <<>>
            ELSE <<Hashes(sec.level) \o <<SP>> \o sec.name>>
                 \o (IF sec.content # <<>> THEN <<sec.content>> ELSE <<>>))
           \o RebuildLines(Tail(sections))

\* _rebuild_content raises KeyError when a section other than 'preamble' has no 'level'
RebuildRaises(sections) ==
  \E i \in 1..Len(sections) : sections[i].name # sPreamble /\ ~sections[i].has

\* the text _rebuild_content assigns to self.content
RebuildContent(sections) ==
  Join((IF HasKey(sections, sPreamble) THEN <<DictGet(sections, sPreamble).content>> ELSE <<>>)
       \o RebuildLines(sections), <<NL>>)

(***************************************************************************)
(* update_from_analysis and its steps.  A step returns the updater's       *)
(* fields after it, its return value, and raised = TRUE when it ended in   *)
(* an uncaught KeyError (the fields are then as the step left them).       *)
(***************************************************************************)
FeatureTitles == << sFeatures,
                    <<"K","e","y"," ">> \o sFeatures,
                    <<"F","u","n","c","t","i","o","n","a","l","i","t","y">>,
                    <<"W","h","a","t"," ","i","t"," ","d","o","e","s">> >>
ConfigTitles == << sConfiguration,
                   <<"C","o","n","f","i","g">>,
                   <<"E","n","v","i","r","o","n","m","e","n","t">>,
                   <<"S","e","t","u","p">> >>

\* a _find_section whose loops are nested the other way: the first section, in
\* document order, that any of the titles matches
FindSectionDocumentOrder(sections, possible_titles) ==
  LET hits == {i \in 1..Len(sections) :
                 \E k \in 1..Len(possible_titles) :
                   Contains(Lower(sections[i].name), Lower(possible_titles[k]))}
  IN  IF hits # {} THEN [found |-> TRUE, name |-> sections[MinOf(hits)].name]
      ELSE [found |-> FALSE, name |-> <<>>]

\* _find_section(possible_titles): the section name, found = FALSE for None
RECURSIVE FindSection(_, _)
FindSection(sections, possible_titles) ==
  IF possible_titles = <<>> THEN [found |-> FALSE, name |-> <<>>]
  ELSE LET hits == {i \in 1..Len(sections) :
                      Contains(Lower(sections[i].name), Lower(Head(possible_titles)))}
       IN  IF hits # {} THEN [found |-> TRUE, name |-> sections[MinOf(hits)].name]
           ELSE FindSection(sections, Tail(possible_titles))

\* re.match(r'^#{1,6}\s+', line)
IsHeaderStart(line) ==
  LET h == LeadingHashes(line)
  IN  h >= 1 /\ h <= 6 /\ SpaceRun(line, h + 1) >= 1

\* an _insert_after_preamble without the two 'Release Notes' cases: before the
\* first header, whatever it says
InsertBeforeFirstHeader(content, new_content) ==
  LET lines == Split(content)
      heads == {i \in 1..Len(lines) : IsHeaderStart(lines[i])}
  IN  IF heads # {}
        THEN Join(ListInsert(lines, MinOf(heads) - 1, new_content), <<NL>>)
        ELSE content \o <<NL>> \o new_content

\* _insert_after_preamble(new_content)
InsertAfterPreamble(content, new_content) ==
  LET lines == Split(content)
      heads == {i \in 1..Len(lines) : IsHeaderStart(lines[i])}
      first == MinOf(heads)
  IN  IF Contains(lines[1], sReleaseNotes)
        THEN Join(ListInsert(lines, 1, new_content), <<NL>>)
        ELSE IF heads # {}
          THEN IF Contains(lines[first], sReleaseNotes)
                 THEN Join(ListInsert(lines, first, new_content), <<NL>>)
                 ELSE Join(ListInsert(lines, first - 1, new_content), <<NL>>)
          ELSE content \o <<NL>> \o new_content

\* _rebuild_content() on the given fields
Rebuild(content, sections) ==
  IF RebuildRaises(sections)
    THEN [content |-> content, sections |-> sections, raised |-> TRUE]
    ELSE [content |-> RebuildContent(sections), sections |-> sections, raised |-> FALSE]

\* a loop that stops after the first item
UncoveredBulletsFirstOnly(items, section_content) ==
  IF items = <<>> THEN <<>>
  ELSE IF ~Contains(Lower(section_content), Lower(Head(items)))
         THEN sBullet \o Head(items) \o <<NL>> ELSE <<>>

\* the bullets appended for the items not yet covered by section_content
\* (lines 259-262 and 327-329)
RECURSIVE UncoveredBullets(_, _)
UncoveredBullets(items, section_content) ==
  IF items = <<>> THEN <<>>
  ELSE (IF ~Contains(Lower(section_content), Lower(Head(items)))
          THEN sBullet \o Head(items) \o <<NL>> ELSE <<>>)
       \o UncoveredBullets(Tail(items), section_content)

\* new_content of lines 255-262 and 323-329
AppendedContent(section_content, items) ==
  LET stripped == RStrip(section_content)
      base == IF ~EndsWith(stripped, <<NL>>) THEN stripped \o <<NL>> ELSE stripped
  IN  base \o UncoveredBullets(items, section_content)

\* self.sections[name]['content'] = new_content
SetContent(sections, name, new_content) ==
  [sections EXCEPT ![KeyIndex(sections, name)].content = new_content]

\* a new "\n## <title>\n\n" section with one bullet per item (lines 267-269, 338-340)
NewSection(title, items) == <<NL>> \o sH2 \o title \o <<NL, NL>> \o get_bullets(items)

\* an _add_features that never looks for a section and always makes a new one
AddFeaturesNewSection(content, sections, features) ==
  LET inserted == InsertAfterPreamble(content, NewSection(sFeatures, features))
      r == Rebuild(inserted, ParseSections(inserted))
  IN  IF features = <<>>
        THEN [content |-> content, sections |-> sections, raised |-> FALSE, ret |-> FALSE]
        ELSE [content |-> r.content, sections |-> r.sections, raised |-> r.raised,
              ret |-> ~r.raised]

\* _add_features(features)
AddFeatures(content, sections, features) ==
  LET fs == FindSection(sections, FeatureTitles)
      inserted == InsertAfterPreamble(content, NewSection(sFeatures, features))
      r == IF fs.found /\ fs.name # <<>>
             THEN Rebuild(content, SetContent(sections, fs.name,
                     AppendedContent(DictGet(sections, fs.name).content, features)))
             ELSE Rebuild(inserted, ParseSections(inserted))
  IN  IF features = <<>>
        THEN [content |-> content, sections |-> sections, raised |-> FALSE, ret |-> FALSE]
        ELSE [content |-> r.content, sections |-> r.sections, raised |-> r.raised,
              ret |-> ~r.raised]

\* the end (exclusive) of a match of ^\s*[-*+]\s+.*{feature}.*$ that starts at p,
\* with MULTILINE and IGNORECASE; 0 when there is none.  \s* takes the whole
\* whitespace run before the marker; \s+ is greedy and gives characters back
\* until the rest of the line it stops on holds the feature.
BulletMatchEnd(s, p, feature) ==
  LET m == p + SpaceRun(s, p)
      w == SpaceRun(s, m + 1)
      eol(q) == LET n == Find(s, <<NL>>, q) IN IF n = 0 THEN Len(s) + 1 ELSE n
      good == {q \in (m + 2)..(m + 1 + w) :
                 Contains(Lower(SubSeq(s, q, eol(q) - 1)), Lower(feature))}
  IN  IF /\ (p = 1 \/ s[p - 1] = NL)
         /\ m <= Len(s)
         /\ s[m] \in {"-", "*", "+"}
         /\ w >= 1
         /\ good # {}
        THEN eol(MaxOf(good))
        ELSE 0

\* re.sub(pattern, '', content, flags=re.MULTILINE | re.IGNORECASE) for one feature
RECURSIVE RemoveBulletsFrom(_, _, _)
RemoveBulletsFrom(s, feature, pos) ==
  LET starts == {p \in pos..Len(s) : BulletMatchEnd(s, p, feature) # 0}
      p0 == MinOf(starts)
  IN  IF starts = {} THEN SubSeq(s, pos, Len(s))
      ELSE SubSeq(s, pos, p0 - 1) \o RemoveBulletsFrom(s, feature, BulletMatchEnd(s, p0, feature))

\* the loop over features of lines 290-294
RECURSIVE RemoveAllFeatures(_, _)
RemoveAllFeatures(content, features) ==
  IF features = <<>> THEN content
  ELSE RemoveAllFeatures(RemoveBulletsFrom(content, Head(features), 1), Tail(features))

\* the loop over self.sections.items() of lines 286-298, from index i on
RECURSIVE RemoveLoop(_, _, _, _)
RemoveLoop(sections, features, i, modified) ==
  IF i > Len(sections) THEN [sections |-> sections, modified |-> modified, raised |-> FALSE]
  ELSE IF ~sections[i].has THEN [sections |-> sections, modified |-> modified, raised |-> TRUE]
  ELSE LET c == RemoveAllFeatures(sections[i].content, features)
       IN  IF c # sections[i].content
             THEN RemoveLoop([sections EXCEPT ![i].content = c], features, i + 1, TRUE)
             ELSE RemoveLoop(sections, features, i + 1, modified)

\* _remove_features(features)
RemoveFeatures(content, sections, features) ==
  LET l == RemoveLoop(sections, features, 1, FALSE)
      r == Rebuild(content, l.sections)
  IN  IF features = <<>>
        THEN [content |-> content, sections |-> sections, raised |-> FALSE, ret |-> FALSE]
        ELSE IF l.raised
          THEN [content |-> content, sections |-> l.sections, raised |-> TRUE, ret |-> FALSE]
          ELSE IF l.modified
            THEN [content |-> r.content, sections |-> r.sections, raised |-> r.raised,
                  ret |-> ~r.raised]
            ELSE [content |-> content, sections |-> sections, raised |-> FALSE, ret |-> FALSE]

\* _update_features(features): treated as additions
UpdateFeatures(content, sections, features) == AddFeatures(content, sections, features)

\* _update_configuration(config_updates)
UpdateConfiguration(content, sections, config_updates) ==
  LET cs == FindSection(sections, ConfigTitles)
      section_content == DictGet(sections, cs.name).content
      new_content == AppendedContent(section_content, config_updates)
      inserted == InsertAfterPreamble(content, NewSection(sConfiguration, config_updates))
      r == IF cs.found /\ cs.name # <<>>
             THEN Rebuild(content, SetContent(sections, cs.name, new_content))
             ELSE Rebuild(inserted, ParseSections(inserted))
  IN  IF config_updates = <<>> \/ (cs.found /\ cs.name # <<>> /\ new_content = section_content)
        THEN [content |-> content, sections |-> sections, raised |-> FALSE, ret |-> FALSE]
        ELSE [content |-> r.content, sections |-> r.sections, raised |-> r.raised,
              ret |-> ~r.raised]

\* one formatted entry (lines 431-436); an empty input or output is falsy
FormatEntry(entry) ==
  <<NL>> \o sH3 \o entry.name \o <<NL>>
  \o entry.description \o <<NL, NL>>
  \o (IF entry.input # <<>>
        THEN <<"-"," ","*","*","I","n","p","u","t","*","*",":"," ">> \o entry.input \o <<NL>>
        ELSE <<>>)
  \o (IF entry.output # <<>>
        THEN <<"-"," ","*","*","O","u","t","p","u","t","*","*",":"," ">> \o entry.output \o <<NL>>
        ELSE <<>>)

RECURSIVE FormatEntries(_)
FormatEntries(entries) ==
  IF entries = <<>> THEN <<>> ELSE FormatEntry(Head(entries)) \o FormatEntries(Tail(entries))

\* the entries whose "### {name}" is not in current_content (lines 446-450)
RECURSIVE NewEntries(_, _)
NewEntries(entries, current_content) ==
  IF entries = <<>> THEN <<>>
  ELSE (IF ~Contains(current_content, sH3 \o Head(entries).name) THEN <<Head(entries)>> ELSE <<>>)
       \o NewEntries(Tail(entries), current_content)

\* _update_documentation_entries(entries)
UpdateDocumentationEntries(content, sections, entries) ==
  LET fs == FindSection(sections, FeatureTitles)
      current_content == DictGet(sections, fs.name).content
      added == NewEntries(entries, current_content)
      inserted == InsertAfterPreamble(content,
                    <<NL>> \o sH2 \o sFeatures \o <<NL>> \o FormatEntries(entries))
      r == IF fs.found /\ fs.name # <<>>
             THEN Rebuild(content, SetContent(sections, fs.name,
                                              current_content \o FormatEntries(added)))
             ELSE Rebuild(inserted, ParseSections(inserted))
  IN  IF entries = <<>> \/ (fs.found /\ fs.name # <<>> /\ added = <<>>)
        THEN [content |-> content, sections |-> sections, raised |-> FALSE, ret |-> FALSE]
        ELSE [content |-> r.content, sections |-> r.sections, raised |-> r.raised,
              ret |-> ~r.raised]

\* "modified |= step(...)": the fields and the flag after a step that ran on st
Merged(st, step_result) ==
  [content |-> step_result.content, sections |-> step_result.sections,
   raised |-> step_result.raised, ret |-> st.ret \/ step_result.ret]

\* lines 222-226: the structured entries, or else the new features
AddStep(st, analysis) ==
  IF st.raised THEN st
  ELSE IF analysis.documentation_entries # <<>>
    THEN Merged(st, UpdateDocumentationEntries(st.content, st.sections,
                                               analysis.documentation_entries))
  ELSE IF analysis.new_features # <<>>
    THEN Merged(st, AddFeatures(st.content, st.sections, analysis.new_features))
  ELSE st

\* lines 229-230
RemoveStep(st, analysis) ==
  IF st.raised \/ analysis.removed_features = <<>> THEN st
  ELSE Merged(st, RemoveFeatures(st.content, st.sections, analysis.removed_features))

\* lines 233-234
ModifyStep(st, analysis) ==
  IF st.raised \/ analysis.modified_features = <<>> THEN st
  ELSE Merged(st, UpdateFeatures(st.content, st.sections, analysis.modified_features))

\* lines 237-238
ConfigStep(st, analysis) ==
  IF st.raised \/ analysis.configuration_updates = <<>> THEN st
  ELSE Merged(st, UpdateConfiguration(st.content, st.sections, analysis.configuration_updates))

\* the steps of update_from_analysis, in the order of lines 222-238
AnalysisSteps == <<"add", "remove", "modify", "configure">>

StepResult(st, analysis, step) ==
  CASE step = "add" -> AddStep(st, analysis)
    [] step = "remove" -> RemoveStep(st, analysis)
    [] step = "modify" -> ModifyStep(st, analysis)
    [] step = "configure" -> ConfigStep(st, analysis)

RECURSIVE RunSteps(_, _, _)
RunSteps(st, analysis, steps) ==
  IF steps = <<>> THEN st
  ELSE CHOOSE r \in {RunSteps(n, analysis, Tail(steps)) :
                       n \in {StepResult(st, analysis, Head(steps))}} : TRUE

\* update_from_analysis(analysis): the fields after it, its return value, and
\* whether it raised (a step runs on the fields the earlier steps left, and not
\* at all once one of them has raised)
AnalysisResult(content, sections, analysis) ==
  RunSteps([content |-> content, sections |-> sections, raised |-> FALSE, ret |-> FALSE],
           analysis, AnalysisSteps)

(***************************************************************************)
(* ChangeFilter (src/filters.py): which changed files are analyzed         *)
(***************************************************************************)
\* re.match of the joined TEST_PATTERNS with IGNORECASE, on a path without
\* newlines: a pattern that ends in $ is a test of the end of the path, one that
\* starts with .* and ends with .* is a substring test
is_test_file(filepath) ==
  LET p == Lower(filepath)
  IN  \/ EndsWith(p, <<"_","t","e","s","t",".","p","y">>) \/ EndsWith(p, <<".","t","e","s","t",".","p","y">>)
      \/ (StartsAt(p, <<"t","e","s","t","_">>, 1) /\ EndsWith(p, <<".","p","y">>) /\ Len(p) >= 8)
      \/ EndsWith(p, <<".","t","e","s","t",".","j","s">>) \/ EndsWith(p, <<".","t","e","s","t",".","t","s">>)
      \/ EndsWith(p, <<".","s","p","e","c",".","j","s">>) \/ EndsWith(p, <<".","s","p","e","c",".","t","s">>)
      \/ Contains(p, <<"/","t","e","s","t","/">>) \/ Contains(p, <<"/","t","e","s","t","s","/">>)
      \/ Contains(p, <<"/","_","_","t","e","s","t","s","_","_","/">>)
      \/ EndsWith(p, <<"_","t","e","s","t",".","g","o">>) \/ EndsWith(p, <<".","t","e","s","t",".","g","o">>)

\* re.match of the joined README_PATTERNS with IGNORECASE
is_readme_file(filepath) ==
  LET p == Lower(filepath)
  IN  \/ p = <<"r","e","a","d","m","e",".","m","d">> \/ p = <<"r","e","a","d","m","e",".","t","x","t">> \/ p = <<"r","e","a","d","m","e">>
      \/ EndsWith(p, <<"/","r","e","a","d","m","e",".","m","d">>)
      \/ EndsWith(p, <<".","r","e","a","d","m","e">>)

\* re.match of the joined DOC_PATTERNS with IGNORECASE
is_doc_file(filepath) ==
  LET p == Lower(filepath)
  IN  \/ EndsWith(p, <<".","m","d">>)
      \/ Contains(p, <<"/","d","o","c","/">>) \/ Contains(p, <<"/","d","o","c","s","/">>)

\* get_code_files(filepaths)
get_code_files(filepaths) ==
  LET Analyzed(filepath) ==
        /\ ~is_test_file(filepath)
        /\ ~(is_readme_file(filepath) \/ is_doc_file(filepath))
  IN  SelectSeq(filepaths, Analyzed)

(***************************************************************************)
(* Inputs: documents, ChangeSets, version labels, dates                    *)
(***************************************************************************)
MaxCalls == 2
MaxFileOps == 2

cA == <<"A">>
cB == <<"B">>
cAB == <<"A","B">>
v1 == <<"v","1">>
v2 == <<"v","2">>

Line(t) == t \o <<NL>>
bullet(item) == sBullet \o item

EmptyAnalysis ==
  [new_features |-> <<>>, removed_features |-> <<>>, modified_features |-> <<>>,
   configuration_updates |-> <<>>, documentation_entries |-> <<>>]

\* ChangeSets handed to update_changelog
ChangelogAnalyses ==
  { EmptyAnalysis,
    [EmptyAnalysis EXCEPT !.new_features = <<cA>>],
    [EmptyAnalysis EXCEPT !.new_features = <<cA, cB>>],
    [EmptyAnalysis EXCEPT !.new_features = <<cB, cB>>],
    [EmptyAnalysis EXCEPT !.new_features = <<cA>>, !.removed_features = <<cA>>],
    [EmptyAnalysis EXCEPT !.modified_features = <<cAB>>, !.configuration_updates = <<cA>>] }

ChangelogVersions == {v1, v2}

\* the head of a changelog file: nothing, the title, another title, prose that
\* mentions the title's words, a deeper heading that holds the title's text
ChangelogHeads ==
  { <<>>,
    Line(sH1 \o sReleaseNotes),
    Line(sH1 \o <<"T">>),
    Line(<<"S","e","e"," ">> \o sReleaseNotes),
    Line(sH2 \o sReleaseNotes) \o Line(sH1 \o sReleaseNotes) }

\* what follows the head: version blocks as update_changelog writes them
\* ("\n## v1 (d)\n\n### Added\n- A\n\n"), hand-written variants of them, blocks of
\* other versions, a heading one level deeper
ChangelogBlocks ==
  { <<>>,
    <<NL>> \o Line(sH2 \o v1 \o <<" ","(","d",")">>) \o <<NL>> \o Line(sH3 \o sAdded)
       \o Line(bullet(cA)) \o <<NL>>,
    Line(sH2 \o v1) \o Line(sH3 \o sAdded) \o Line(bullet(cAB)),
    Line(sH2 \o v1) \o sH3 \o sAdded,
    Line(sH2 \o v1) \o Line(sH3 \o sAdded \o <<" ">>) \o Line(bullet(cB)),
    Line(sH2 \o v1 \o <<"2"," ","(","d",")">>) \o Line(sH3 \o sAdded) \o Line(bullet(cB)),
    Line(sH3 \o v1) \o Line(bullet(cA)),
    sH2 \o v1 }

ChangelogTails ==
  { <<>>,
    <<NL>> \o Line(sH2 \o <<"v","0">>) \o Line(sH3 \o sAdded) \o Line(bullet(cB)) }

ChangelogDocs ==
  { h \o b \o t : h \in ChangelogHeads, b \in ChangelogBlocks, t \in ChangelogTails }

Dates == { [year |-> 2026, month |-> 11, day |-> 5] }

\* the file at readme_path: whether it exists, and its text
NoFile == [exists |-> FALSE, text |-> <<>>]
File(text) == [exists |-> TRUE, text |-> text]

(***************************************************************************)
(* The updater                                                             *)
(***************************************************************************)
VARIABLES
  file,      \* the file at readme_path
  content,   \* self.content
  sections,  \* self.sections
  today,     \* what datetime.date.today() returns
  raised,    \* whether the last call ended in an uncaught exception
  last,      \* the last call: its name, arguments, return value, and the fields before it
  prior,     \* the name and arguments of the call before the last
  calls,     \* the number of calls made
  found,     \* the last _find_section call: its argument and what it returned
  io,        \* the traffic with the file: how often this updater has read it, how
             \* often it was written, and the save() calls and constructions so far
  filtered   \* the last get_code_files call: its argument and what it returned

vars == <<file, content, sections, today, raised, last, prior, calls, found, io, filtered>>

NoCall == [op |-> "none", analysis |-> EmptyAnalysis, version |-> <<>>]
NoFind == [possible_titles |-> <<>>, result |-> [found |-> FALSE, name |-> <<>>]]
NoFilter == [filepaths |-> <<>>, result |-> <<>>]

\* READMEUpdater(readme_path): the fields are empty unless the file exists
Construct(f) ==
  /\ file = f
  /\ content = IF f.exists THEN f.text ELSE <<>>
  /\ sections = IF f.exists THEN ParseSections(f.text) ELSE <<>>
  /\ today \in Dates
  /\ raised = FALSE
  /\ last = [op |-> "none", analysis |-> EmptyAnalysis, version |-> <<>>, ret |-> FALSE,
             content |-> <<>>, sections |-> <<>>]
  /\ prior = NoCall
  /\ calls = 0
  /\ found = NoFind
  /\ io = [reads |-> IF f.exists THEN 1 ELSE 0, writes |-> 0, trail |-> <<>>]
  /\ filtered = NoFilter

Record(op, analysis, version, ret) ==
  /\ last' = [op |-> op, analysis |-> analysis, version |-> version, ret |-> ret,
              content |-> content, sections |-> sections]
  /\ prior' = [op |-> last.op, analysis |-> last.analysis, version |-> last.version]
  /\ calls' = calls + 1

\* update_changelog(analysis, version)
UpdateChangelog(analyses, versions) ==
  /\ calls < MaxCalls
  /\ \E analysis \in analyses, version \in versions :
       \E r \in {ChangelogResult(content, analysis, version, today)} :
           /\ content' = r.content
           /\ raised' = FALSE
           /\ Record("update_changelog", analysis, version, r.ret)
  /\ UNCHANGED <<file, sections, today, found, io, filtered>>

\* update_from_analysis(analysis)
UpdateFromAnalysis(analyses) ==
  /\ calls < MaxCalls
  /\ \E analysis \in analyses :
       \E r \in {AnalysisResult(content, sections, analysis)} :
           /\ content' = r.content
           /\ sections' = r.sections
           /\ raised' = r.raised
           /\ Record("update_from_analysis", analysis, <<>>, r.ret)
  /\ UNCHANGED <<file, today, found, io, filtered>>

\* load_readme(): open() raises FileNotFoundError when there is no file
LoadReadme ==
  /\ calls < MaxCalls
  /\ IF file.exists
       THEN /\ content' = file.text
            /\ sections' = ParseSections(file.text)
            /\ raised' = FALSE
            /\ io' = [io EXCEPT !.reads = @ + 1]
       ELSE /\ UNCHANGED <<content, sections, io>>
            /\ raised' = TRUE
  /\ Record("load_readme", EmptyAnalysis, <<>>, FALSE)
  /\ UNCHANGED <<file, today, found, filtered>>

\* _rebuild_content()
RebuildCall ==
  /\ calls < MaxCalls
  /\ \E r \in {Rebuild(content, sections)} :
       /\ content' = r.content
       /\ raised' = r.raised
  /\ Record("_rebuild_content", EmptyAnalysis, <<>>, FALSE)
  /\ UNCHANGED <<file, sections, today, found, io, filtered>>

\* _find_section(possible_titles)
FindSectionCall(title_lists) ==
  /\ calls < MaxCalls
  /\ \E possible_titles \in title_lists :
       found' = [possible_titles |-> possible_titles,
                 result |-> FindSection(sections, possible_titles)]
  /\ raised' = FALSE
  /\ Record("_find_section", EmptyAnalysis, <<>>, FALSE)
  /\ UNCHANGED <<file, content, sections, today, io, filtered>>

\* a save() that writes the text as it was before the last call
SaveTextBeforeLastCall ==
  /\ Len(io.trail) < MaxFileOps
  /\ file' = [exists |-> TRUE, text |-> last.content]
  /\ io' = [io EXCEPT !.writes = @ + 1,
                      !.trail = Append(@, [op |-> "save", at |-> calls])]
  /\ raised' = FALSE
  /\ UNCHANGED <<content, sections, today, last, prior, calls, found, filtered>>

\* save(): the text is written to the file, which is created if there is none
Save ==
  /\ Len(io.trail) < MaxFileOps
  /\ file' = [exists |-> TRUE, text |-> content]
  /\ io' = [io EXCEPT !.writes = @ + 1,
                      !.trail = Append(@, [op |-> "save", at |-> calls])]
  /\ raised' = FALSE
  /\ UNCHANGED <<content, sections, today, last, prior, calls, found, filtered>>

\* READMEUpdater(readme_path) once more: a new updater for the file as it is
\* now; last, prior and calls go on as the record of the calls made on the file
Reconstruct ==
  /\ Len(io.trail) < MaxFileOps
  /\ content' = IF file.exists THEN file.text ELSE <<>>
  /\ sections' = IF file.exists THEN ParseSections(file.text) ELSE <<>>
  /\ io' = [io EXCEPT !.reads = IF file.exists THEN 1 ELSE 0,
                      !.trail = Append(@, [op |-> "construct", at |-> calls])]
  /\ raised' = FALSE
  /\ UNCHANGED <<file, today, last, prior, calls, found, filtered>>

\* get_diff_preview(original_content): difflib.unified_diff yields nothing for
\* equal line lists, so the returned text is empty exactly when the lists are
\* equal; ret records whether it is non-empty
GetDiffPreview(originals) ==
  /\ calls < MaxCalls
  /\ \E original_content \in originals :
       Record("get_diff_preview", EmptyAnalysis, <<>>, Split(original_content) # Split(content))
  /\ raised' = FALSE
  /\ UNCHANGED <<file, content, sections, today, found, io, filtered>>

\* ChangeFilter().get_code_files(filepaths)
GetCodeFiles(path_lists) ==
  /\ calls < MaxCalls
  /\ \E filepaths \in path_lists :
       filtered' = [filepaths |-> filepaths, result |-> get_code_files(filepaths)]
  /\ raised' = FALSE
  /\ Record("get_code_files", EmptyAnalysis, <<>>, FALSE)
  /\ UNCHANGED <<file, content, sections, today, found, io>>

(***************************************************************************)
(* The changelog file: update_changelog calls on one updater               *)
(***************************************************************************)
InitChangelog == \E f \in {File(d) : d \in ChangelogDocs} \cup {NoFile} : Construct(f)
NextChangelog == UpdateChangelog(ChangelogAnalyses, ChangelogVersions)
SpecChangelog == InitChangelog /\ [][NextChangelog]_vars

(***************************************************************************)
(* The README file: update_from_analysis and update_changelog calls on one *)
(* updater                                                                 *)
(***************************************************************************)
cFoo == <<"f","o","o">>
EntryFoo == [name |-> cFoo, description |-> <<"d">>, input |-> <<"i">>, output |-> <<>>]

ReadmeAnalyses ==
  { EmptyAnalysis,
    [EmptyAnalysis EXCEPT !.new_features = <<cB>>],
    [EmptyAnalysis EXCEPT !.new_features = <<cA>>, !.removed_features = <<cB>>],
    [EmptyAnalysis EXCEPT !.modified_features = <<cA>>, !.configuration_updates = <<cB>>],
    [EmptyAnalysis EXCEPT !.documentation_entries = <<EntryFoo>>],
    [EmptyAnalysis EXCEPT !.documentation_entries = <<EntryFoo>>, !.new_features = <<cB>>] }

ReadmeVersions == {v1}

ReadmeDocs ==
  { <<>>,
    Line(sH1 \o <<"P">>) \o <<NL>> \o Line(sH2 \o sFeatures) \o Line(bullet(cA)),
    Line(sH1 \o <<"P">>) \o <<NL>> \o Line(<<"t","e","x","t">>),
    Line(<<"i","n","t","r","o">>),
    Line(sH1 \o <<"P">>) \o Line(sH2 \o <<"K","e","y"," ">> \o sFeatures) \o Line(bullet(cA))
       \o <<NL>> \o Line(sH2 \o <<"U","s","a","g","e">>) \o Line(bullet(cAB)),
    Line(sH2 \o sFeatures) \o Line(sH3 \o cFoo) \o Line(<<"d">>),
    Line(sH1 \o sReleaseNotes) \o <<NL>> \o Line(sH2 \o v1 \o <<" ","(","d",")">>) \o <<NL>>
       \o Line(sH3 \o sAdded) \o Line(bullet(cA)),
    Line(sH2 \o sFeatures) \o Line(bullet(cA)) \o Line(sH2 \o sConfiguration)
       \o Line(bullet(cB)) }

Init == \E f \in {File(d) : d \in ReadmeDocs} \cup {NoFile} : Construct(f)
Next ==
  \/ UpdateChangelog(ReadmeAnalyses, ReadmeVersions)
  \/ UpdateFromAnalysis(ReadmeAnalyses)
Spec == Init /\ [][Next]_vars

(***************************************************************************)
(* The documentation file: update_from_analysis calls on one updater, and  *)
(* an update_changelog call among them                                     *)
(***************************************************************************)
ca == <<"a">>
cb == <<"b">>
cP == <<"P">>
sIntro == <<"i","n","t","r","o">>
sText == <<"t","e","x","t">>
sKeyFeatures == <<"K","e","y"," ">> \o sFeatures
sUsage == <<"U","s","a","g","e">>

\* documents with and without a section for the features, with text ahead of
\* the first heading, with a title that mentions the release notes, with bullets
\* of all three markers in several sections, with two headings of one title,
\* with a heading marker that only whitespace follows, and with a bare bullet
\* marker on the line before a line of text
FeatureDocs ==
  { <<>>,
    Line(sH1 \o cP) \o <<NL>> \o Line(sH2 \o sFeatures) \o Line(bullet(cA)),
    Line(sIntro) \o Line(sH1 \o cP) \o Line(sText),
    Line(sH1 \o cP) \o Line(sText),
    Line(sH1 \o cP) \o Line(sH2 \o sKeyFeatures) \o Line(bullet(cA))
       \o <<NL>> \o Line(sH2 \o sUsage) \o Line(<<"*", " ">> \o cAB),
    Line(sH2 \o sFeatures) \o Line(sH3 \o cFoo) \o Line(<<"d">>),
    Line(sH1 \o sReleaseNotes) \o <<NL>> \o Line(sH2 \o v1 \o <<" ","(","d",")">>)
       \o Line(bullet(cA)),
    Line(sIntro) \o Line(sH1 \o sReleaseNotes) \o Line(sH2 \o v1),
    Line(sH2 \o sFeatures) \o Line(bullet(cA)) \o Line(sH2 \o sConfiguration)
       \o Line(bullet(cB)),
    Line(<<"+", " ">> \o ca) \o Line(sH1 \o cP) \o Line(bullet(cB))
       \o Line(sH2 \o sFeatures) \o Line(bullet(<<"x", " ">> \o cA \o <<" ", "y">>)),
    Line(sText),
    Line(sH1 \o cP) \o Line(sText) \o Line(sH1 \o cP) \o Line(sH2 \o sFeatures)
       \o Line(bullet(cA)),
    Line(sH1 \o cP) \o Line(<<HASH, SP, SP>>) \o Line(sH2 \o sFeatures)
       \o Line(bullet(cA)),
    Line(sH1 \o cP) \o Line(<<"-">>) \o Line(cA) \o Line(sText) }

FeatureAnalyses ==
  { EmptyAnalysis,
    [EmptyAnalysis EXCEPT !.new_features = <<cA>>],
    [EmptyAnalysis EXCEPT !.new_features = <<cB, cB>>],
    [EmptyAnalysis EXCEPT !.new_features = <<cA, cb>>],
    [EmptyAnalysis EXCEPT !.new_features = <<cA>>, !.removed_features = <<cB>>],
    [EmptyAnalysis EXCEPT !.new_features = <<cB>>, !.removed_features = <<cb>>],
    [EmptyAnalysis EXCEPT !.removed_features = <<ca>>],
    [EmptyAnalysis EXCEPT !.removed_features = <<cA>>, !.modified_features = <<cA>>],
    [EmptyAnalysis EXCEPT !.modified_features = <<cA>>, !.configuration_updates = <<cB>>],
    [EmptyAnalysis EXCEPT !.configuration_updates = <<cB>>],
    [EmptyAnalysis EXCEPT !.documentation_entries = <<EntryFoo>>],
    [EmptyAnalysis EXCEPT !.documentation_entries = <<EntryFoo>>, !.new_features = <<cB>>] }

\* the ChangeSets of the update_changelog call
FeatureChangelogAnalyses ==
  { [EmptyAnalysis EXCEPT !.new_features = <<cA>>],
    [EmptyAnalysis EXCEPT !.configuration_updates = <<cA>>] }

InitFeatures == \E f \in {File(d) : d \in FeatureDocs} \cup {NoFile} : Construct(f)
NextFeatures ==
  \/ UpdateFromAnalysis(FeatureAnalyses)
  \/ UpdateChangelog(FeatureChangelogAnalyses, ReadmeVersions)
SpecFeatures == InitFeatures /\ [][NextFeatures]_vars

(***************************************************************************)
(* Persistence: merges, previews, save() and new updaters for the file     *)
(***************************************************************************)
SaveDocs ==
  { <<>>,
    Line(sH1 \o cP) \o <<NL>> \o Line(sH2 \o sFeatures) \o Line(bullet(cA)),
    sText }

SaveAnalyses ==
  { [EmptyAnalysis EXCEPT !.new_features = <<cB>>],
    [EmptyAnalysis EXCEPT !.removed_features = <<cA>>],
    [EmptyAnalysis EXCEPT !.configuration_updates = <<cB>>],
    [EmptyAnalysis EXCEPT !.documentation_entries = <<EntryFoo>>] }

InitSave == \E f \in {File(d) : d \in SaveDocs} \cup {NoFile} : Construct(f)
NextSave ==
  \/ UpdateFromAnalysis(SaveAnalyses)
  \/ UpdateChangelog(FeatureChangelogAnalyses, ReadmeVersions)
  \/ GetDiffPreview(SaveDocs)
  \/ Save
  \/ Reconstruct
SpecSave == InitSave /\ [][NextSave]_vars

(***************************************************************************)
(* The changed files of a commit: get_code_files calls                     *)
(***************************************************************************)
FilterPaths ==
  { <<"s","r","c","/","m","a","i","n",".","p","y">>,
    <<"t","e","s","t","_","m","a","i","n",".","p","y">>,
    <<"R","E","A","D","M","E",".","m","d">>,
    <<".","g","i","t","i","g","n","o","r","e">>,
    <<"s","e","t","u","p",".","p","y">>,
    <<"d","o","c","s","/","g","u","i","d","e",".","m","d">>,
    <<"s","r","c","/","t","e","s","t","s","/","x",".","p","y">>,
    <<"U","p","d","a","t","e","s",".","r","e","a","d","m","e">>,
    <<"s","r","c","/",".","e","n","v">> }

MaxPaths == 2

\* the lists of up to n paths
RECURSIVE PathsUpTo(_)
PathsUpTo(n) ==
  IF n = 0 THEN {<<>>}
  ELSE PathsUpTo(n - 1)
       \cup {Append(l, f) : l \in {k \in PathsUpTo(n - 1) : Len(k) = n - 1}, f \in FilterPaths}

InitFilter == Construct(NoFile)
NextFilter == GetCodeFiles(PathsUpTo(MaxPaths))
SpecFilter == InitFilter /\ [][NextFilter]_vars

(***************************************************************************)
(* Parsing, rebuilding and looking up sections: load_readme,               *)
(* _rebuild_content and _find_section calls on one updater                 *)
(***************************************************************************)
cT == <<"T">>
cU == <<"U">>

\* the lines documents are made of: headings (two of them with one title, one
\* titled 'preamble', one with spaces around its title), text, a blank line, and
\* malformed markers (no space, seven '#', nothing but whitespace after the marker)
ParseLines ==
  { sH1 \o cT,
    sH2 \o cT,
    <<HASH, SP, SP>> \o cU \o <<SP>>,
    sH1 \o sPreamble,
    cA,
    <<>>,
    <<HASH>> \o cT,
    <<HASH, HASH, HASH, HASH, HASH, HASH, HASH, SP>> \o cT,
    <<HASH, SP, SP>> }

MaxLines == 3

\* the texts of up to MaxLines lines, each with or without a newline at its end
RECURSIVE LinesUpTo(_)
LinesUpTo(n) ==
  IF n = 0 THEN {<<>>}
  ELSE LET shorter == LinesUpTo(n - 1)
       IN  shorter \cup {Append(ls, l) : ls \in {x \in shorter : Len(x) = n - 1}, l \in ParseLines}
ParseDocs ==
  {Join(ls, <<NL>>) : ls \in LinesUpTo(MaxLines)}
    \cup {Join(ls, <<NL>>) \o <<NL>> : ls \in LinesUpTo(MaxLines)}

\* the lists of titles _find_section is asked for: the synonyms of 'Features'
\* of the source, and lists that differ from the titles in case and in order
TitleLists ==
  { FeatureTitles, <<cU, cT>>, <<<<"t">>, cU>>, <<<<"e">>>> }

InitParse == \E f \in {File(d) : d \in ParseDocs} \cup {NoFile} : Construct(f)
NextParse ==
  \/ LoadReadme
  \/ RebuildCall
  \/ FindSectionCall(TitleLists)
SpecParse == InitParse /\ [][NextParse]_vars

(***************************************************************************)
(* Reading a text as the documents of the claims read it: lines, version   *)
(* blocks, category sub-blocks, bullets                                    *)
(***************************************************************************)
IsNonBlank(line) == Strip(line) # <<>>
NonBlankLines(text) == SelectSeq(Split(text), IsNonBlank)

\* the index of the first line that satisfies Test, from index from on; 0 if none
FirstLine(lines, from, Test(_)) ==
  LET hits == {i \in from..Len(lines) : Test(lines[i])}
  IN  IF hits = {} THEN 0 ELSE MinOf(hits)

\* a line that is exactly "## L", or "## L (...)"
IsVersionHeading(line, L) ==
  \/ line = sH2 \o L
  \/ /\ StartsAt(line, sH2 \o L \o <<" ", "(">>, 1)
     /\ line[Len(line)] = ")"

HasBlock(text, L) == \E i \in 1..Len(Split(text)) : IsVersionHeading(Split(text)[i], L)

\* the lines of the block of L: after its heading, up to the next "## " heading
BlockLines(text, L) ==
  LET lines == Split(text)
      IsL(line) == IsVersionHeading(line, L)
      IsH2(line) == StartsAt(line, sH2, 1)
      h == FirstLine(lines, 1, IsL)
      e == FirstLine(lines, h + 1, IsH2)
  IN  IF h = 0 THEN <<>>
      ELSE SubSeq(lines, h + 1, IF e = 0 THEN Len(lines) ELSE e - 1)

IsCategoryHeading(line, cat) == line = sH3 \o cat
HasSubBlock(block, cat) == \E i \in 1..Len(block) : IsCategoryHeading(block[i], cat)
CountHeadings(block, cat) == Cardinality({i \in 1..Len(block) : IsCategoryHeading(block[i], cat)})

\* the trimmed bullet lines of the first "### cat" sub-block of a block
IsBulletLine(line) == StartsAt(Strip(line), <<"-">>, 1)
SubBlockBullets(block, cat) ==
  LET IsCat(line) == IsCategoryHeading(line, cat)
      IsHead(line) == StartsAt(line, sH3, 1) \/ StartsAt(line, sH2, 1)
      c == FirstLine(block, 1, IsCat)
      e == FirstLine(block, c + 1, IsHead)
      body == SubSeq(block, c + 1, IF e = 0 THEN Len(block) ELSE e - 1)
      picked == SelectSeq(body, IsBulletLine)
  IN  IF c = 0 THEN <<>> ELSE [i \in 1..Len(picked) |-> Strip(picked[i])]

InSeq(x, seq) == \E i \in 1..Len(seq) : seq[i] = x

\* the bullets of the items that are not among seen, each once, in the items' order
RECURSIVE FreshBullets(_, _)
FreshBullets(items, seen) ==
  IF items = <<>> THEN <<>>
  ELSE IF InSeq(bullet(Head(items)), seen) THEN FreshBullets(Tail(items), seen)
  ELSE <<bullet(Head(items))>> \o FreshBullets(Tail(items), Append(seen, bullet(Head(items))))

\* the four categories with the ChangeSet list each is fed from
CategoryLists(analysis) ==
  << [cat |-> sAdded, items |-> analysis.new_features],
     [cat |-> sRemoved, items |-> analysis.removed_features],
     [cat |-> sChanged, items |-> analysis.modified_features],
     [cat |-> sConfiguration, items |-> analysis.configuration_updates] >>

NoChanges(analysis) ==
  /\ analysis.new_features = <<>>
  /\ analysis.removed_features = <<>>
  /\ analysis.modified_features = <<>>
  /\ analysis.configuration_updates = <<>>

\* after is before with a text put in at offset i and nothing else changed
InsertedAt(before, after, i) ==
  LET d == Len(after) - Len(before)
  IN  /\ d >= 0
      /\ SubSeq(after, 1, i) = SubSeq(before, 1, i)
      /\ SubSeq(after, i + d + 1, Len(after)) = SubSeq(before, i + 1, Len(before))
InsertedText(before, after, i) == SubSeq(after, i + 1, i + Len(after) - Len(before))

\* the lines of a new version block: the heading with the date, then each
\* non-empty category's heading and bullets, in the order Added, Removed,
\* Changed, Configuration
CategoryLines(c) ==
  IF c.items = <<>> THEN <<>>
  ELSE <<sH3 \o c.cat>> \o [i \in 1..Len(c.items) |-> bullet(c.items[i])]
ExpectedBlockLines(analysis, L, date) ==
  LET cl == CategoryLists(analysis)
  IN  <<sH2 \o L \o <<" ", "(">> \o IsoFormat(date) \o <<")">>>>
      \o CategoryLines(cl[1]) \o CategoryLines(cl[2]) \o CategoryLines(cl[3])
      \o CategoryLines(cl[4])

TitleLine == sH1 \o sReleaseNotes

\* a new block was put somewhere into the text, under a new title or not,
\* and the text that was there is all still there, unchanged
BlockCreated(before, after, lines) ==
  \E i \in 0..Len(before) :
    /\ InsertedAt(before, after, i)
    /\ NonBlankLines(InsertedText(before, after, i)) \in {lines, <<TitleLine>> \o lines}

\* YYYY-MM-DD
IsIsoDate(t) ==
  /\ Len(t) = 10
  /\ \A i \in 1..10 : IF i \in {5, 8} THEN t[i] = "-"
                       ELSE \E k \in 1..Len(Digits) : Digits[k] = t[i]

\* the offset of the end of the first line that holds p (its newline included)
EndOfFirstLineWith(text, p) ==
  LET at == Find(text, p, 1)
      nl == Find(text, <<NL>>, at)
  IN  IF nl = 0 THEN Len(text) ELSE nl

\* the last call was update_changelog, with something to record
ChangelogCalled == last.op = "update_changelog" /\ ~NoChanges(last.analysis)
\* ... and its search found a block to merge into / found none
MergedIntoBlock == ChangelogCalled /\ VersionMatch(last.content, last.version).found
CreatedNewBlock == ChangelogCalled /\ ~VersionMatch(last.content, last.version).found
\* the last two calls were the same call with the same arguments
SameCallTwice ==
  /\ calls >= 2
  /\ prior = [op |-> last.op, analysis |-> last.analysis, version |-> last.version]

\* the offset at which line k of the text ends (its newline included); 0 for k = 0
EndOfLine(text, k) == Len(Concat(SubSeq(SplitLinesKeepEnds(text), 1, k)))

IsTitleLine(line) == RStrip(line) = TitleLine
IsHeadingLine(line) == StartsAt(line, <<HASH>>, 1)
HasLine(text, Test(_)) == FirstLine(Split(text), 1, Test) # 0

\* the lists of the last call, and the block of its label before and after it
BlockBefore == BlockLines(last.content, last.version)
BlockAfter == BlockLines(content, last.version)
ExpectedLines == ExpectedBlockLines(last.analysis, last.version, today)

(***************************************************************************)
(* C1..C10: update_changelog, and the idempotence and no-op contracts      *)
(***************************************************************************)
\* C1: update_changelog is idempotent: when the same ChangeSet and version label
\* are handed to update_changelog twice in a row on one updater, the second call
\* leaves the text as the first call left it and returns False.
C1_ChangelogIdempotent ==
  (SameCallTwice /\ last.op = "update_changelog")
    => (content = last.content /\ last.ret = FALSE)

\* C2: update_from_analysis is idempotent on one updater: for a loaded document,
\* the text after applying a ChangeSet twice equals the text after applying it once.
C2_AnalysisIdempotent ==
  (SameCallTwice /\ last.op = "update_from_analysis" /\ file.exists)
    => content = last.content

\* C3: no-op on an empty ChangeSet: with the four feature and configuration lists
\* empty update_changelog returns False and leaves the text as it was; with
\* documentation_entries empty as well update_from_analysis returns False and
\* leaves the text and the parsed sections as they were.
C3_EmptyChangeSetNoOp ==
  /\ (last.op = "update_changelog" /\ NoChanges(last.analysis))
       => (last.ret = FALSE /\ content = last.content /\ sections = last.sections)
  /\ (last.op = "update_from_analysis" /\ NoChanges(last.analysis)
        /\ last.analysis.documentation_entries = <<>>)
       => (last.ret = FALSE /\ ~raised /\ content = last.content /\ sections = last.sections)

\* C3's case: both operations were called with an empty ChangeSet on a document
\* that has text, update_changelog first
C3_Witness ==
  /\ calls = 2
  /\ prior.op = "update_changelog" /\ prior.analysis = EmptyAnalysis
  /\ last.op = "update_from_analysis" /\ last.analysis = EmptyAnalysis
  /\ content # <<>>

\* no item's bullet is a part of an old bullet line without being that line
NoPartOfOld(items, old) ==
  \A i \in 1..Len(items), j \in 1..Len(old) :
    Contains(old[j], bullet(items[i])) => old[j] = bullet(items[i])

\* C4: changelog category merge: when the block of label L already has a
\* "### <category>" sub-block with bullets, after update_changelog the block has exactly one
\* such heading, the old bullets are kept in their order, and every item of the
\* ChangeSet list is a bullet of the sub-block exactly once, the new bullets
\* after the old ones in ChangeSet order, also when the list repeats an item.
\* (Stated for the lists none of whose bullets is a part of a longer old bullet:
\* those are the matter of C5.)
C4_CategoryMerge ==
  ChangelogCalled =>
    \A k \in 1..4 :
      LET c == CategoryLists(last.analysis)[k]
          old == SubBlockBullets(BlockBefore, c.cat)
      IN  (c.items # <<>> /\ HasBlock(last.content, last.version)
             /\ HasSubBlock(BlockBefore, c.cat) /\ old # <<>>
             /\ NoPartOfOld(c.items, old))
            => /\ CountHeadings(BlockAfter, c.cat) = 1
               /\ SubBlockBullets(BlockAfter, c.cat) = old \o FreshBullets(c.items, old)

\* C5: when merging into a category sub-block that has bullets, a candidate bullet is suppressed
\* only if the sub-block has a line equal to it after trimming: a candidate that
\* no line of the sub-block equals (one that is merely part of a longer bullet,
\* say) is a bullet of the sub-block after the call.
C5_ExactLineSuppression ==
  ChangelogCalled =>
    \A k \in 1..4 :
      LET c == CategoryLists(last.analysis)[k]
          old == SubBlockBullets(BlockBefore, c.cat)
      IN  (HasBlock(last.content, last.version) /\ HasSubBlock(BlockBefore, c.cat)
             /\ old # <<>>)
            => \A i \in 1..Len(c.items) :
                 ~InSeq(bullet(c.items[i]), old)
                   => InSeq(bullet(c.items[i]), SubBlockBullets(BlockAfter, c.cat))

\* C6: update_changelog merges into a block only if the document has a line that
\* is exactly "## L", with or without a date in parentheses after it: when there
\* is no such line (only a label that starts with L, or a deeper heading
\* "### L") the text that was there is left as it was and a new block for L is
\* created.
C6_ExactLabelMatch ==
  (ChangelogCalled /\ ~HasBlock(last.content, last.version))
    => BlockCreated(last.content, content, ExpectedLines)

\* C7: when update_changelog finds no block for L it creates one: the heading
\* "## L (YYYY-MM-DD)", then one "### <category>" sub-block per non-empty list in
\* the order Added, Removed, Changed, Configuration, each with its items as
\* "- item" lines in ChangeSet order; empty categories are left out.
C7_NewBlockShape ==
  CreatedNewBlock
    => /\ BlockCreated(last.content, content, ExpectedLines)
       /\ IsIsoDate(IsoFormat(today))

\* C7's case: a block was created from a ChangeSet with two non-empty lists
C7_Witness ==
  /\ CreatedNewBlock
  /\ last.analysis.new_features # <<>>
  /\ last.analysis.removed_features # <<>>

C9_BeforeFirstHeading ==
  (CreatedNewBlock /\ ~Contains(last.content, sReleaseNotes))
    => IF HasLine(last.content, IsHeadingLine)
         THEN LET at == EndOfLine(last.content,
                                  FirstLine(Split(last.content), 1, IsHeadingLine) - 1)
              IN  /\ InsertedAt(last.content, content, at)
                  /\ NonBlankLines(InsertedText(last.content, content, at)) = ExpectedLines
         ELSE /\ InsertedAt(last.content, content, 0)
              /\ NonBlankLines(InsertedText(last.content, content, 0))
                   = <<TitleLine>> \o ExpectedLines

\* C9, amended: when no block for L is found and no line of the document holds
\* the text "# Release Notes": if the words "Release Notes" are nowhere in the
\* text, a "# Release Notes" title line and the new block under it are put ahead
\* of the whole document, headings or not; if the words are somewhere in the
\* text, the new block is appended at the end of the document.
C9_TitleAndBlockFirst ==
  (CreatedNewBlock /\ ~Contains(last.content, TitleLine))
    => IF ~Contains(last.content, sReleaseNotes)
         THEN /\ InsertedAt(last.content, content, 0)
              /\ StartsAt(content, Line(TitleLine), 1)
              /\ NonBlankLines(InsertedText(last.content, content, 0))
                   = <<TitleLine>> \o ExpectedLines
         ELSE /\ InsertedAt(last.content, content, Len(last.content))
              /\ NonBlankLines(InsertedText(last.content, content, Len(last.content)))
                   = ExpectedLines

\* C9's case: a block was created in a document that has a heading and nowhere
\* the words "Release Notes"
C9_Witness ==
  /\ CreatedNewBlock
  /\ ~Contains(last.content, sReleaseNotes)
  /\ HasLine(last.content, IsHeadingLine)

\* C10: update_changelog returns True if and only if the text after the call
\* differs from the text before the call.
C10_ReturnsTrueIffChanged ==
  last.op = "update_changelog" => (last.ret <=> content # last.content)

\* C10's case: a merge into a block that had every bullet already
C10_Witness ==
  /\ MergedIntoBlock
  /\ last.ret = FALSE

(***************************************************************************)
(* C11..C20: update_from_analysis and its steps, _find_section, parsing    *)
(* and rebuilding                                                          *)
(***************************************************************************)
\* the keys of self.sections in their order ('preamble', the key of the text
\* before the first heading, is one of them), and those a title is part of
SectionNames(secs) == [i \in 1..Len(secs) |-> secs[i].name]
SectionsWith(secs, title) ==
  {i \in 1..Len(secs) : Contains(Lower(secs[i].name), Lower(title))}

\* C13: _find_section selects by candidate priority first and document order
\* second: it returns the first section, in document order, whose title holds
\* (whatever the case of the letters) the earliest candidate that is part of any
\* section title at all, and None if and only if no candidate is part of any title.
C13_FindSectionPriority ==
  last.op = "_find_section" =>
    LET titles == found.possible_titles
        matching == {k \in 1..Len(titles) : SectionsWith(sections, titles[k]) # {}}
    IN  IF matching = {} THEN ~found.result.found
        ELSE /\ found.result.found
             /\ found.result.name
                  = sections[MinOf(SectionsWith(sections, titles[MinOf(matching)]))].name

\* C13's case: a later section that the first candidate matches is returned, and
\* not the earlier section that only the second candidate matches
C13_Witness ==
  /\ last.op = "_find_section"
  /\ found.possible_titles = <<cU, cT>>
  /\ found.result = [found |-> TRUE, name |-> cU]
  /\ Len(sections) >= 2
  /\ sections[1].name = cT

\* a heading line as the documents of the claims have them: 1 to 6 '#', a space,
\* a title; its level and its trimmed title
AfterMarker(line) == SubSeq(line, LeadingHashes(line) + 1, Len(line))
HasMarker(line) ==
  /\ LeadingHashes(line) \in 1..6
  /\ Len(line) > LeadingHashes(line)
  /\ IsSpace(line[LeadingHashes(line) + 1])
IsHeading(line) == HasMarker(line) /\ Strip(AfterMarker(line)) # <<>>
HeadingLevel(line) == LeadingHashes(line)
HeadingTitle(line) == Strip(AfterMarker(line))
\* a malformed heading: a marker with nothing but whitespace after it
IsBlankMarker(line) == HasMarker(line) /\ Strip(AfterMarker(line)) = <<>>
NoBlankMarker(text) == \A i \in 1..Len(Split(text)) : ~IsBlankMarker(Split(text)[i])

\* a sequence without the later occurrences of its elements
RECURSIVE Distinct(_)
Distinct(seq) ==
  IF seq = <<>> THEN <<>>
  ELSE LET front == SubSeq(seq, 1, Len(seq) - 1)
           x == seq[Len(seq)]
       IN  IF InSeq(x, front) THEN Distinct(front) ELSE Append(Distinct(front), x)

\* the titles of the headings of a text, in the order of the lines, after the
\* key of the text ahead of the first heading if the text starts with such text
TitlesInOrder(text) ==
  LET lines == Split(text)
      heads == SelectSeq(lines, IsHeading)
  IN  (IF IsHeading(lines[1]) THEN <<>> ELSE <<sPreamble>>)
      \o [i \in 1..Len(heads) |-> HeadingTitle(heads[i])]

\* the indexes of the heading lines with a given title
HeadingsTitled(text, title) ==
  {i \in 1..Len(Split(text)) :
     IsHeading(Split(text)[i]) /\ HeadingTitle(Split(text)[i]) = title}

\* the lines under the heading at line i, up to the next heading, as one text
BodyOf(text, i) ==
  LET lines == Split(text)
      e == FirstLine(lines, i + 1, IsHeading)
  IN  Join(SubSeq(lines, i + 1, IF e = 0 THEN Len(lines) ELSE e - 1), <<NL>>)

\* the updater has just parsed the text of its file
JustLoaded == file.exists /\ (calls = 0 \/ last.op = "load_readme")

\* C20: duplicate titles are last-wins in content and first-seen in position:
\* when two headings of the input have one title, the parsed document holds
\* exactly one section with that title, at the place of the first occurrence in
\* the order of the sections, with the level and the body of the last occurrence.
\* (Stated for the texts without a marker that only whitespace follows: what
\* becomes of those is the matter of C23.)
C20_DuplicateTitles ==
  (JustLoaded /\ NoBlankMarker(content)) =>
    /\ SectionNames(sections) = Distinct(TitlesInOrder(content))
    /\ \A k \in 1..Len(sections) :
         LET at == HeadingsTitled(content, sections[k].name)
         IN  Cardinality(at) >= 2
               => /\ sections[k].has
                  /\ sections[k].level = HeadingLevel(Split(content)[MaxOf(at)])
                  /\ sections[k].content = BodyOf(content, MaxOf(at))

\* C20's case: a text whose first and last lines are headings with one title
\* and different levels, the first with text under it, was parsed
C20_Witness ==
  /\ JustLoaded
  /\ last.op = "load_readme"
  /\ content = Join(<<sH1 \o cT, cA, sH2 \o cT>>, <<NL>>)
  /\ Len(sections) = 1

\* the non-blank lines of a text, each heading line written as its level's
\* marker, one space and its trimmed title
CanonicalLine(line) ==
  IF IsHeading(line) THEN Hashes(HeadingLevel(line)) \o <<SP>> \o HeadingTitle(line) ELSE line
CanonicalLines(text) ==
  LET lines == NonBlankLines(text)
  IN  [i \in 1..Len(lines) |-> CanonicalLine(lines[i])]

\* C19: parsing followed by serialization drops no line: every non-blank line
\* of the input is in the rebuilt text, a heading line as a heading of its level
\* and trimmed title, any other line as it was, all in the original order, also
\* when two headings share a title or a heading is titled 'preamble'.
\* (Stated for the texts without a marker that only whitespace follows: what
\* becomes of those is the matter of C23.)
C19_NoLineDropped ==
  (last.op = "_rebuild_content" /\ calls = 1 /\ file.exists /\ NoBlankMarker(last.content))
    => /\ ~raised
       /\ CanonicalLines(content) = CanonicalLines(last.content)

\* a call of update_from_analysis that did not raise is the last call
AnalysisCalled == last.op = "update_from_analysis" /\ ~raised

\* C11: the boolean update_from_analysis returns reports whether the document
\* changed: it is True if and only if the text after the call differs from the
\* text before the call; a call whose features are all present returns False.
C11_ReturnsTrueIffTextChanged ==
  AnalysisCalled => (last.ret <=> content # last.content)

\* the section a list of titles selects: the first section, in the order of the
\* sections, that holds the earliest title that is part of any section name;
\* 0 when no title is part of a name, or the selected name is the empty string
TargetOf(secs, titles) ==
  LET matching == {k \in 1..Len(titles) : SectionsWith(secs, titles[k]) # {}}
      t == MinOf(SectionsWith(secs, titles[MinOf(matching)]))
  IN  IF matching = {} THEN 0 ELSE IF secs[t].name = <<>> THEN 0 ELSE t

\* the call only adds features: new_features (and modified_features, which are
\* added like new ones) and nothing else
OnlyAdds(a) ==
  /\ a.new_features \o a.modified_features # <<>>
  /\ a.documentation_entries = <<>>
  /\ a.removed_features = <<>>
  /\ a.configuration_updates = <<>>
Covers(text, feature) == Contains(Lower(text), Lower(feature))
IsPrefix(p, t) == Len(p) <= Len(t) /\ SubSeq(t, 1, Len(p)) = p

\* C12: synonym resolution: when a section title matches one of Features / Key
\* Features / Functionality / What it does, adding features appends the bullets
\* to that section (its old content stays in front, every feature is in it
\* afterwards, the other sections are as they were) and the number of sections
\* does not change: the names are the same and the text has a heading 'Features'
\* only if a section has that name.
C12_SynonymResolution ==
  (AnalysisCalled /\ OnlyAdds(last.analysis) /\ TargetOf(last.sections, FeatureTitles) # 0) =>
    LET t == TargetOf(last.sections, FeatureTitles)
        features == last.analysis.new_features \o last.analysis.modified_features
    IN  /\ SectionNames(sections) = SectionNames(last.sections)
        /\ \A k \in 1..Len(sections) : k # t => sections[k] = last.sections[k]
        /\ sections[t].level = last.sections[t].level
        /\ IsPrefix(RStrip(last.sections[t].content), sections[t].content)
        /\ \A i \in 1..Len(features) : Covers(sections[t].content, features[i])
        /\ Cardinality(HeadingsTitled(content, sFeatures))
             = Cardinality({k \in 1..Len(sections) : sections[k].name = sFeatures})
        /\ Contains(content, sections[t].content)

\* C12's case: the document has '## Key Features' and no '## Features', and a
\* feature it did not have was added: the bullet is under 'Key Features'
C12_Witness ==
  /\ AnalysisCalled
  /\ last.analysis.new_features = <<cB, cB>>
  /\ OnlyAdds(last.analysis)
  /\ TargetOf(last.sections, FeatureTitles) # 0
  /\ last.sections[TargetOf(last.sections, FeatureTitles)].name = sKeyFeatures
  /\ ~Covers(last.content, cB)
  /\ Contains(sections[TargetOf(last.sections, FeatureTitles)].content, bullet(cB))

\* the bullets of the features a text does not cover, each feature tested
\* against the text as it is when its turn comes (the bullets added before it
\* included), in input order
RECURSIVE BulletsAtInsertion(_, _)
BulletsAtInsertion(features, text) ==
  IF features = <<>> THEN <<>>
  ELSE IF Covers(text, Head(features)) THEN BulletsAtInsertion(Tail(features), text)
  ELSE LET line == bullet(Head(features)) \o <<NL>>
       IN  line \o BulletsAtInsertion(Tail(features), text \o line)

\* C14: duplicate suppression when adding features to an existing section: a
\* feature is not added as a bullet if the section content at the moment of
\* insertion covers it by case-insensitive substring match, so a feature listed
\* twice in one call is added at most once; the features not covered are
\* appended as '- feature' lines after the existing content in input order.
C14_NoDuplicateBullets ==
  (/\ AnalysisCalled
   /\ OnlyAdds(last.analysis)
   /\ last.analysis.modified_features = <<>>
   /\ TargetOf(last.sections, FeatureTitles) # 0) =>
    LET t == TargetOf(last.sections, FeatureTitles)
        old == RStrip(last.sections[t].content) \o <<NL>>
    IN  sections[t].content = old \o BulletsAtInsertion(last.analysis.new_features, old)

\* a sequence with x put after its first p elements
InsertAt(seq, p, x) == SubSeq(seq, 1, p) \o <<x>> \o SubSeq(seq, p + 1, Len(seq))

\* the call adds new features to a document with no section for them: no title
\* of a section the updater holds, and no heading of the text, has a synonym
NoFeaturesSection ==
  /\ AnalysisCalled
  /\ OnlyAdds(last.analysis)
  /\ last.analysis.modified_features = <<>>
  /\ NoBlankMarker(last.content)
  /\ TargetOf(last.sections, FeatureTitles) = 0
  /\ \A k \in 1..Len(FeatureTitles) :
        \A i \in 1..Len(TitlesInOrder(last.content)) :
          ~Covers(TitlesInOrder(last.content)[i], FeatureTitles[k])

\* the number of sections of a text that are ahead of its first heading: 1 if
\* there is text ahead of it (the preamble), else 0
AheadOfFirstHeading(text) == IF IsHeading(Split(text)[1]) THEN 0 ELSE 1

\* a sequence of section names without the key of the text ahead of the headings
IsTitle(name) == name # sPreamble
\* the one new section of a call in the case NoFeaturesSection: it is new, of
\* level 2, it starts with the features as bullets, and the sections are the
\* former ones, in their order, with 'Features' after the first p of them (put
\* ahead of a heading that was the first line, the new section has an empty line
\* before it, which is the text ahead of the headings from then on)
NewFeaturesSectionAfter(p) ==
  /\ SectionNames(sections)
       = (IF p = 0 THEN <<sPreamble>> ELSE <<>>)
           \o Distinct(InsertAt(TitlesInOrder(last.content), p, sFeatures))
  /\ Len(SelectSeq(SectionNames(sections), IsTitle))
       = Len(SelectSeq(Distinct(TitlesInOrder(last.content)), IsTitle)) + 1
  /\ \A k \in 1..Len(sections) :
        sections[k].name = sFeatures
          => /\ sections[k].level = 2
             /\ IsPrefix(<<NL>> \o get_bullets(last.analysis.new_features), sections[k].content)
  /\ Cardinality(HeadingsTitled(content, sFeatures)) = 1

\* C15 as stated: when no section matches the Features synonyms, adding features
\* creates exactly one new level-2 section 'Features' holding the features as
\* bullets, immediately after the preamble text and before the first heading
\* that existed before the call, for every document, including one whose first
\* heading or first line mentions 'Release Notes'; the former sections keep
\* their relative order after it.
C15_BeforeFirstHeading ==
  NoFeaturesSection => NewFeaturesSectionAfter(AheadOfFirstHeading(last.content))

\* where _insert_after_preamble puts the new section, counted in sections: after
\* the first section when the first line mentions 'Release Notes' (be it the
\* title or a line of text) or, else, after the first heading when that heading
\* mentions 'Release Notes'; otherwise before the first heading
PlaceOfNewSection(text) ==
  LET lines == Split(text)
      heads == {i \in 1..Len(lines) : IsHeading(lines[i])}
  IN  IF Contains(lines[1], sReleaseNotes) THEN 1
      ELSE IF heads # {} /\ Contains(lines[MinOf(heads)], sReleaseNotes)
        THEN AheadOfFirstHeading(text) + 1
        ELSE AheadOfFirstHeading(text)

\* C15, amended: when no section matches the Features synonyms, adding features
\* creates exactly one new level-2 section 'Features' that starts with the
\* features as bullets; it is placed before the first heading that existed
\* before the call, unless the first line of the text or, else, that first
\* heading contains 'Release Notes': then it is placed right after that line.
\* The former sections keep their relative order.
C15_AfterReleaseNotesTitle ==
  NoFeaturesSection => NewFeaturesSectionAfter(PlaceOfNewSection(last.content))

\* C15's case: the title of the document is '# Release Notes': the new section
\* is the second one, after the title and ahead of the version heading
C15_Witness ==
  /\ NoFeaturesSection
  /\ Split(last.content)[1] = sH1 \o sReleaseNotes
  /\ Len(sections) = 3
  /\ SectionNames(sections)[1] = sReleaseNotes
  /\ SectionNames(sections)[2] = sFeatures

\* the lines of a text that are exactly the sub-heading '### name'
SubHeadingLines(text, name) ==
  {i \in 1..Len(Split(text)) : Split(text)[i] = sH3 \o name}

\* the call only brings structured entries, and the updater holds a section
\* for the features
OnlyEntries ==
  /\ AnalysisCalled
  /\ last.analysis.documentation_entries # <<>>
  /\ last.analysis.removed_features = <<>>
  /\ last.analysis.modified_features = <<>>
  /\ last.analysis.configuration_updates = <<>>
  /\ TargetOf(last.sections, FeatureTitles) # 0

\* C16: structured entries are deduplicated by exact sub-heading name: an entry
\* is skipped if and only if the document already has a sub-heading line that
\* is exactly '### n' under its Features section: such an entry is not added a
\* second time, and an entry without such a line is added once (a sub-heading
\* whose name only starts with n does not suppress it).
C16_ExactSubHeadingDedup ==
  OnlyEntries =>
    \A e \in 1..Len(last.analysis.documentation_entries) :
      LET n == last.analysis.documentation_entries[e].name
          before == Cardinality(SubHeadingLines(last.content, n))
      IN  Cardinality(SubHeadingLines(content, n)) = IF before > 0 THEN before ELSE 1

\* a bullet line: a '-', '*' or '+' marker, after optional whitespace, followed
\* by whitespace; and the bullet lines of a text that hold one of the features
IsBullet(line) ==
  LET m == 1 + SpaceRun(line, 1)
  IN  /\ m < Len(line)
      /\ line[m] \in {"-", "*", "+"}
      /\ IsSpace(line[m + 1])
BulletsWith(text, features) ==
  {i \in 1..Len(Split(text)) :
     /\ IsBullet(Split(text)[i])
     /\ \E k \in 1..Len(features) : Covers(Split(text)[i], features[k])}

\* C17: document-wide removal: after update_from_analysis(cs) with non-empty
\* cs.removed_features, no bullet line ('-', '*' or '+' marker) in any section
\* of the document, the preamble and the sections other than Features
\* included, contains (case-insensitively) any string of cs.removed_features.
\* (Stated for the calls whose later steps add nothing: the bullets that
\* modified_features and configuration_updates bring are appended after the
\* removal.)
C17_NoBulletLeft ==
  (/\ AnalysisCalled
   /\ last.analysis.removed_features # <<>>
   /\ last.analysis.modified_features = <<>>
   /\ last.analysis.configuration_updates = <<>>)
    => BulletsWith(content, last.analysis.removed_features) = {}

RECURSIVE IsSubsequence(_, _)
IsSubsequence(a, b) ==
  IF a = <<>> THEN TRUE
  ELSE IF b = <<>> THEN FALSE
  ELSE IF Head(a) = Head(b) THEN IsSubsequence(Tail(a), Tail(b))
  ELSE IsSubsequence(a, Tail(b))

\* the call only appends to sections the updater has: features to the section
\* of the features, or configuration items to the section of the configuration
AppendsToExisting ==
  /\ AnalysisCalled
  /\ last.analysis.documentation_entries = <<>>
  /\ last.analysis.removed_features = <<>>
  /\ \/ /\ OnlyAdds(last.analysis)
        /\ TargetOf(last.sections, FeatureTitles) # 0
     \/ /\ last.analysis.new_features \o last.analysis.modified_features = <<>>
        /\ last.analysis.configuration_updates # <<>>
        /\ TargetOf(last.sections, ConfigTitles) # 0

\* C21: untouched content is preserved: when features or configuration items
\* are appended to an existing target section, every non-blank line of the
\* text before the call (the preamble, the headings with their levels and
\* titles, the bodies) is in the rebuilt text, in the same order, and nothing
\* is new but the bullets of the items.
C21_UntouchedContentPreserved ==
  AppendsToExisting =>
    LET before == CanonicalLines(last.content)
        after == CanonicalLines(content)
        items == last.analysis.new_features \o last.analysis.modified_features
                   \o last.analysis.configuration_updates
    IN  /\ IsSubsequence(before, after)
        /\ Len(after) <= Len(before) + Len(items)

\* the call only removes features, and it is the first call on a loaded text
\* whose headings have distinct titles
OnlyRemoves ==
  /\ AnalysisCalled
  /\ calls = 1
  /\ last.analysis.removed_features # <<>>
  /\ last.analysis.new_features \o last.analysis.modified_features = <<>>
  /\ last.analysis.configuration_updates = <<>>
  /\ last.analysis.documentation_entries = <<>>
  /\ NoBlankMarker(last.content)
  /\ TitlesInOrder(last.content) = Distinct(TitlesInOrder(last.content))

\* the non-blank lines of a text that are not bullets with one of the features
LinesToKeep(text, features) ==
  LET Keep(line) == ~(IsBullet(line) /\ \E k \in 1..Len(features) : Covers(line, features[k]))
      lines == SelectSeq(NonBlankLines(text), Keep)
  IN  [i \in 1..Len(lines) |-> CanonicalLine(lines[i])]

\* C22: removal touches only matching bullets: _remove_features changes no line
\* other than the bullet lines ('-', '*' or '+' marker followed by text on the
\* same line) whose own text holds one of the target strings, whatever the case
\* of the letters: every other non-blank line (prose, bullets that do not match,
\* a line that follows a bare marker line) is left as it was, in the order it had.
C22_OnlyMatchingBullets ==
  OnlyRemoves =>
    IsSubsequence(LinesToKeep(last.content, last.analysis.removed_features),
                  CanonicalLines(content))

\* C23: the engine never fails on document content: for every document text
\* (lines with malformed heading markers such as '#Title', seven or more '#',
\* or a marker followed only by whitespace included) and every ChangeSet,
\* update_from_analysis and update_changelog complete without raising.
C23_NeverRaisesOnContent ==
  last.op \in {"update_from_analysis", "update_changelog"} => ~raised

\* the save() calls so far, and whether save() was the last thing done
Saves == SelectSeq(io.trail, LAMBDA e : e.op = "save")
JustSaved ==
  /\ io.trail # <<>>
  /\ io.trail[Len(io.trail)] = [op |-> "save", at |-> calls]

\* C24: persistence only on explicit save: the file is read at most once, at
\* construction and only if it exists (a missing file gives an empty document
\* and no error); no update_from_analysis, update_changelog or
\* get_diff_preview call reads or writes the file; and immediately after
\* save() the file holds the text the updater has in memory.
C24_PersistenceOnlyOnSave ==
  /\ [](/\ io.reads <= 1
        /\ io.writes = Len(Saves)
        /\ (calls = 0 /\ io.trail = <<>>) =>
              /\ ~raised
              /\ io.reads = (IF file.exists THEN 1 ELSE 0)
              /\ content = (IF file.exists THEN file.text ELSE <<>>)
              /\ ~file.exists => sections = <<>>
        /\ JustSaved => file = [exists |-> TRUE, text |-> content])
  /\ [][calls' # calls => (file' = file /\ io' = io)]_vars

\* C24's case: a merge changed the text of an updater whose file did not
\* exist, and save() has just written it
C24_Witness ==
  /\ JustSaved
  /\ calls = 1
  /\ last.op = "update_from_analysis"
  /\ content # last.content
  /\ last.content = <<>>
  /\ file.exists
  /\ file.text = content
  /\ io.reads = 0

\* the call only brings configuration items
OnlyConfigures(a) ==
  /\ a.configuration_updates # <<>>
  /\ a.new_features \o a.modified_features \o a.removed_features = <<>>
  /\ a.documentation_entries = <<>>

\* C25: configuration updates land in a configuration section: after
\* update_from_analysis(cs) with non-empty cs.configuration_updates the
\* document has a section whose title matches one of Configuration / Config /
\* Environment / Setup (a new level-2 'Configuration' section only when none
\* matched before), its heading and body are in the text, and every
\* configuration item is covered by that body.
C25_ConfigurationSection ==
  (AnalysisCalled /\ last.analysis.configuration_updates # <<>>) =>
    LET t == TargetOf(sections, ConfigTitles)
        items == last.analysis.configuration_updates
    IN  /\ t # 0
        /\ HeadingsTitled(content, sections[t].name) # {}
        /\ Contains(content, sections[t].content)
        /\ \A i \in 1..Len(items) : Covers(sections[t].content, items[i])
        /\ (TargetOf(last.sections, ConfigTitles) = 0 /\ OnlyConfigures(last.analysis))
             => /\ sections[t].name = sConfiguration
                /\ sections[t].level = 2
                /\ IsPrefix(<<NL>> \o get_bullets(items), sections[t].content)

\* a dot file: the name after the last '/' starts with '.'
IsDotFile(filepath) ==
  LET slashes == {i \in 1..Len(filepath) : filepath[i] = "/"}
      start == IF slashes = {} THEN 1 ELSE MaxOf(slashes) + 1
  IN  start <= Len(filepath) /\ filepath[start] = "."

\* C26: get_code_files returns, in input order, the paths that are source code
\* to analyze: it leaves out the test files, the README files, the
\* documentation files and the dot files of the repository such as
\* '.gitignore', and keeps files such as 'src/main.py' and 'setup.py'.
C26_CodeFilesOnly ==
  last.op = "get_code_files" =>
    LET IsCode(filepath) ==
          /\ ~is_test_file(filepath)
          /\ ~is_readme_file(filepath)
          /\ ~is_doc_file(filepath)
          /\ ~IsDotFile(filepath)
    IN  filtered.result = SelectSeq(filtered.filepaths, IsCode)

\* the sections by title, level and body, in order, without their line numbers
Titled(sects) ==
  [k \in 1..Len(sects) |-> <<sects[k].name, sects[k].level, sects[k].content>>]

\* C27: after every update_changelog or update_from_analysis call that
\* returns, parsing the text again gives the sections the updater holds (an
\* updater without a file holds no sections for its empty text), and the
\* version block of an update_changelog call is still in the text after the
\* update_from_analysis call that follows it.
C27_TextAndSectionsConsistent ==
  (last.op \in {"update_changelog", "update_from_analysis"} /\ ~raised) =>
    /\ content # <<>> => Titled(ParseSections(content)) = Titled(sections)
    /\ (last.op = "update_from_analysis" /\ prior.op = "update_changelog"
          /\ HasBlock(last.content, prior.version))
         => HasBlock(content, prior.version)

\* the retry of a ChangeSet: update_from_analysis, save(), a new updater for
\* the saved file, and update_from_analysis with the same ChangeSet again
Retried ==
  /\ calls = 2
  /\ io.trail = <<[op |-> "save", at |-> 1], [op |-> "construct", at |-> 1]>>
  /\ prior.op = "update_from_analysis"
  /\ last.op = "update_from_analysis"
  /\ last.analysis = prior.analysis
  /\ ~raised

\* C28: applying a ChangeSet with update_from_analysis, saving, constructing
\* a new updater from the saved file and applying the ChangeSet again leaves
\* the text equal to the saved text, also for documentation entries.
C28_RetryAfterReloadIdempotent ==
  Retried => (content = last.content /\ content = file.text)

\* the trimmed bullet lines of a block that stand under a heading of the
\* category: a line that starts with "### cat", whatever follows on it
BulletsUnder(block, cat) ==
  LET IsCat(line) == StartsAt(line, sH3 \o cat, 1)
      IsHead(line) == StartsAt(line, sH3, 1) \/ StartsAt(line, sH2, 1)
      Under(i) == \E h \in 1..(i - 1) :
                    /\ IsCat(block[h])
                    /\ \A j \in (h + 1)..(i - 1) : ~IsHead(block[j])
  IN  {Strip(block[i]) : i \in {j \in 1..Len(block) : IsBulletLine(block[j]) /\ Under(j)}}

\* C29: after update_changelog on a document that has a block for L, every
\* item of every non-empty ChangeSet list is a bullet line of that block under
\* the heading of its category, and the call returns False only when every
\* item was there before.
C29_CompleteMerge ==
  (ChangelogCalled /\ HasBlock(last.content, last.version)) =>
    /\ \A k \in 1..4 :
         LET c == CategoryLists(last.analysis)[k]
         IN  \A i \in 1..Len(c.items) : bullet(c.items[i]) \in BulletsUnder(BlockAfter, c.cat)
    /\ last.ret = FALSE =>
         \A k \in 1..4 :
           LET c == CategoryLists(last.analysis)[k]
           IN  \A i \in 1..Len(c.items) : bullet(c.items[i]) \in BulletsUnder(BlockBefore, c.cat)

\* the heading of a version block: a level-2 heading other than a title
IsBlockHeading(line) == StartsAt(line, sH2, 1) /\ ~Contains(line, sReleaseNotes)
BlockHeadings(lines) == {i \in 1..Len(lines) : IsBlockHeading(lines[i])}
\* the line of the text after the call that is the heading of the new block
NewHeadingAt == LET Is(line) == line = ExpectedLines[1] IN FirstLine(Split(content), 1, Is)
\* the block headings that stand ahead of the new block after the call
AheadOfNew == {i \in BlockHeadings(Split(content)) : i < NewHeadingAt}
\* a block was created for a label the document had no heading of
CreatedFirstBlockOfLabel == CreatedNewBlock /\ ~HasBlock(last.content, last.version)

\* C30 as stated: a newly created version block is placed before every version
\* block that was in the document, whatever the document, also when it
\* mentions "Release Notes" only in prose and has no title line.
C30_NewestFirst ==
  CreatedFirstBlockOfLabel => (NewHeadingAt # 0 /\ AheadOfNew = {})

\* C30, amended: the blocks ahead of a newly created block are the blocks that
\* stood before the first line holding "# Release Notes"; without such a line
\* they are all the blocks of the document when the words "Release Notes" are
\* somewhere in it (the new block is last), and none when they are not (the new
\* block is first, under a new title).
C30_NewestFirstUnderTitleLine ==
  CreatedFirstBlockOfLabel =>
    LET old == Split(last.content)
        HoldsTitle(line) == Contains(line, TitleLine)
        t == FirstLine(old, 1, HoldsTitle)
    IN  /\ NewHeadingAt # 0
        /\ Cardinality(BlockHeadings(Split(content))) = Cardinality(BlockHeadings(old)) + 1
        /\ Cardinality(AheadOfNew) =
             IF t # 0 THEN Cardinality({i \in BlockHeadings(old) : i < t})
             ELSE IF Contains(last.content, sReleaseNotes)
                    THEN Cardinality(BlockHeadings(old))
                    ELSE 0

\* C30's case: the second of two new blocks on one updater is put under the
\* title line, ahead of the block of the call before and of an older block
C30_Witness ==
  /\ CreatedFirstBlockOfLabel
  /\ prior.op = "update_changelog"
  /\ HasBlock(last.content, prior.version)
  /\ Contains(last.content, TitleLine)
  /\ Cardinality(BlockHeadings(Split(last.content))) >= 2
  /\ AheadOfNew = {}

====
